---------------------------- MODULE Spec2Model ----------------------------
(***************************************************************************)
(* A model of the agent reply loops (SQLAgent, CodeActAgent) and of the    *)
(* DashScope / ZhipuAI model wrappers of agentscope.                       *)
(*                                                                         *)
(* Each component has its own specification over its own variables; the    *)
(* variables of the other components keep their initial value.             *)
(*   SpecSQL     SQLAgent.reply          (examples/conversation_sql)       *)
(*   SpecCodeAct CodeActAgent.reply      (examples/...codeact_agent)       *)
(*   SpecCodeActLive  the same, the model and the executor returning       *)
(*   SpecModel   the model wrappers' __call__ and the streaming generator  *)
(*   SpecFormat  the wrappers' format, applied to bounded argument lists   *)
(***************************************************************************)
EXTENDS Integers, Sequences, FiniteSets, TLC

VARIABLES
    \* ---- SQLAgent.reply
    sql_pc,        \* position in reply: idle, generate, execute, answer, after, returned, raised
    sql_x,         \* the incoming message: None or a question
    is_sql_response, \* the classification answer of this call, <<>> before it
    attempt,       \* local attempt
    result,        \* local result: "None" or the response text
    msg,           \* local msg: "unbound" or the message built
    sql_error,     \* the exception that left reply, "none" otherwise
    sql_trace,     \* what this reply call did so far, in order
    sql_printed,   \* lines printed by this reply call
    sql_spoken,    \* messages passed to self.speak by this reply call
    sql_turns,     \* reply calls started so far
    sql_response,  \* local sql_response with the model text it was made from, <<>> unbound
    \* ---- CodeActAgent.reply
    ca_pc,         \* position in reply: idle, loop, execute, done, raised
    memory,        \* self.memory: the sequence of messages
    excution_count,\* local excution_count (the source's spelling)
    ca_code,       \* the code handed to the executor, <<>> when none is pending
    ca_trace,      \* model calls and executions of this reply call, in order
    ca_entry,      \* the memory when this reply call was entered
    \* ---- the model wrappers
    wrapper,       \* the wrapper object: model_type, model_name, generate_args, stream
    monitor,       \* the wrapper's usage metrics
    n_saved,       \* invocation records saved by _save_model_invocation
    n_requests,    \* requests handed to the provider's SDK
    n_calls,       \* calls made on the wrapper
    n_ok,          \* calls answered with a success status, streams that ended normally
    mw_pc,         \* idle, streaming (a stream is being consumed), returned, raised
    call_args,     \* the arguments of the last call
    before,        \* monitor, n_saved and n_requests when the last call was entered
    request,       \* the last call's provider request, <<>> when it issued none
    mw_response,   \* the last call's provider response (the last chunk read, for a stream)
    record,        \* the invocation record the last call saved, <<>> when none
    returned,      \* the ModelResponse the last call returned, <<>> when it raised
    mw_error,      \* the exception of the last call or of its stream, <<>> when none
    gen_pos,       \* the generator: none, created, suspended, done, raised, closed
    gen_text,      \* the generator's local text
    last_chunk,    \* the generator's local last_chunk, <<>> for None
    delivered,     \* the chunks the provider delivered to the generator, as delivered
    yielded,       \* the values the generator yielded, in order
    \* ---- the wrappers' format
    fmt_pc,        \* idle, returned, raised
    fmt_args,      \* the positional arguments format is called with
    fmt_by,        \* the model_type of the wrapper whose format ran, "none" before
    fmt_out,       \* the list format returned, <<>> when it did not return
    fmt_error      \* the exception format raised, <<>> when none

sqlVars == <<sql_pc, sql_x, is_sql_response, attempt, result, msg, sql_error, sql_trace,
             sql_printed, sql_spoken, sql_turns, sql_response>>

caVars == <<ca_pc, memory, excution_count, ca_code, ca_trace, ca_entry>>

genVars == <<gen_pos, gen_text, last_chunk, delivered, yielded>>

mwVars == <<wrapper, monitor, n_saved, n_requests, n_calls, n_ok, mw_pc, call_args, before, request,
            mw_response, record, returned, mw_error, genVars>>

fmtVars == <<fmt_pc, fmt_args, fmt_by, fmt_out, fmt_error>>

vars == <<sqlVars, caVars, mwVars, fmtVars>>

\* what the actions of one component leave alone
notSQL == <<caVars, mwVars, fmtVars>>
notCA == <<sqlVars, mwVars, fmtVars>>
notMW == <<sqlVars, caVars, fmtVars>>
notFmt == <<sqlVars, caVars, mwVars>>

-----------------------------------------------------------------------------
(* Bounds of the model *)

\* reply calls made on one SQLAgent
MaxTurns == 2

\* a CodeActAgent takes a new message while its memory holds at most this many
MaxMemLen == 4

\* calls made on one model wrapper
MaxCalls == 2

\* chunks the provider delivers in one stream
MaxChunks == 2

\* positional arguments of one format call
MaxArgs == 2

-----------------------------------------------------------------------------
(* Strings are sequences of characters *)

Str_yes == <<"y", "e", "s">>
Str_YES == <<"Y", "E", "S">>
Str_Yes == <<"Y", "e", "s">>
Str_yes_padded == <<" ", "y", "e", "s">>
Str_no == <<"n", "o">>

\* the characters str.strip() and str.split() take for whitespace
Whitespace == {" ", "\n"}

SubSeqOrEmpty(s, a, b) == IF a > b THEN <<>> ELSE SubSeq(s, a, b)

RECURSIVE Strip(_)
\* str.strip(): whitespace removed at both ends
Strip(s) ==
    IF s = <<>> THEN s
    ELSE IF s[1] \in Whitespace THEN Strip(Tail(s))
    ELSE IF s[Len(s)] \in Whitespace THEN Strip(SubSeq(s, 1, Len(s) - 1))
    ELSE s

\* str.lower(), on the characters the model's answers are made of
LowerChar(c) ==
    CASE c = "Y" -> "y"
      [] c = "E" -> "e"
      [] c = "S" -> "s"
      [] c = "N" -> "n"
      [] c = "O" -> "o"
      [] OTHER -> c

Lower(s) == [i \in 1..Len(s) |-> LowerChar(s[i])]

-----------------------------------------------------------------------------
(* SQLAgent *)

\* self.max_retries = 3
max_retries == 3

\* the texts the model may answer the classification prompt with
ClassificationResponses == {Str_yes, Str_YES, Str_Yes, Str_yes_padded, Str_no}

\* the incoming messages of reply: None (the first call) or a question
SQLInputs == {"None", "question"}

\* a comparison that trims the answer first
IsNotSqlQuestionTrimmed(response) == Lower(Strip(response)) # Str_yes

\* is_sql_response.lower() != "yes"
IsNotSqlQuestion(response) == Lower(response) # Str_yes

\* a loop that allows one attempt more
LoopContinuesOneMore(a) == a <= max_retries

\* while attempt < self.max_retries
LoopContinues(a) == a < max_retries

\* where reply goes after an attempt: the loop's test
AfterAttempt(a) == IF LoopContinues(a) THEN "generate" ELSE "after"

\* ---- get_response_from_prompt: from the model's text to the statement

\* the texts the model may answer the generation prompt with
SqlTexts ==
    { <<"id", " ", "FROM", " ", "singer">>,
      <<" ", "id", " ", "FROM", " ", "singer">>,
      <<"SELECT", " ", "id", " ", "FROM", " ", "singer">>,
      <<"\n", "SELECT", " ", " ", "id", "\n", "FROM", " ", "singer", "\n">>,
      <<"SELECT", " ", "id", " ", "FROM", " ", "singer", " ", "/*", " ", "dup", "*/",
        " ", "SELECT", " ", "id">>,
      <<"/*", "note", "*/", " ", "id">>,
      <<"select", " ", "id">>,
      <<>> }

\* sql.replace("\n", " ")
ReplaceNewlines(s) == [i \in 1..Len(s) |-> IF s[i] = "\n" THEN " " ELSE s[i]]

\* the length of the leading run of s that holds no whitespace
WordLen(s) ==
    IF \E i \in 1..Len(s) : s[i] \in Whitespace
    THEN (CHOOSE i \in 1..Len(s) :
              s[i] \in Whitespace /\ \A j \in 1..(i - 1) : s[j] \notin Whitespace) - 1
    ELSE Len(s)

RECURSIVE SplitWords(_)
\* str.split(): the maximal runs without whitespace, in order
SplitWords(s) ==
    IF s = <<>> THEN <<>>
    ELSE IF s[1] \in Whitespace THEN SplitWords(Tail(s))
    ELSE <<SubSeq(s, 1, WordLen(s))>> \o SplitWords(SubSeqOrEmpty(s, WordLen(s) + 1, Len(s)))

RECURSIVE Join(_, _)
\* sep.join(parts)
Join(sep, parts) ==
    IF parts = <<>> THEN <<>>
    ELSE IF Len(parts) = 1 THEN parts[1]
    ELSE parts[1] \o sep \o Join(sep, Tail(parts))

\* s.split(tok)[0]: what precedes the first tok, all of s when there is none
BeforeFirst(s, tok) ==
    IF \E i \in 1..Len(s) : s[i] = tok
    THEN SubSeqOrEmpty(s, 1, (CHOOSE i \in 1..Len(s) :
                                  s[i] = tok /\ \A j \in 1..(i - 1) : s[j] # tok) - 1)
    ELSE s

\* process_duplication, lines 18-23
process_duplication(sql) == BeforeFirst(Strip(sql), "/*")

\* a test that never finds the keyword
StartsWithNothing(s, tok) == FALSE

\* str.startswith, on a leading token
StartsWith(s, tok) == s # <<>> /\ s[1] = tok

\* lines 59-68; text is self.model(messages).text
get_response_from_prompt(text) ==
    LET sql == process_duplication(Join(<<" ">>, SplitWords(ReplaceNewlines(text))))
    IN IF StartsWith(sql, "SELECT") THEN sql \o <<"\n">>
       ELSE IF StartsWith(sql, " ") THEN <<"SELECT">> \o sql \o <<"\n">>
       ELSE <<"SELECT", " ">> \o sql \o <<"\n">>

SQLInit ==
    /\ sql_pc = "idle"
    /\ sql_x = "None"
    /\ is_sql_response = <<>>
    /\ attempt = 0
    /\ result = "unbound"
    /\ msg = "unbound"
    /\ sql_error = "none"
    /\ sql_trace = <<>>
    /\ sql_printed = <<>>
    /\ sql_spoken = <<>>
    /\ sql_turns = 0
    /\ sql_response = <<>>

\* one more entry in this call's trace
Did(event) ==
    /\ sql_trace' = Append(sql_trace, event)
    /\ UNCHANGED notSQL

\* reply is entered: the locals of the previous call are gone
SQLEnter(x) ==
    /\ sql_pc \in {"idle", "returned", "raised"}
    /\ sql_turns < MaxTurns
    /\ sql_turns' = sql_turns + 1
    /\ sql_x' = x
    /\ sql_printed' = <<>>
    /\ sql_response' = <<>>
    /\ UNCHANGED notSQL

\* an exception leaves reply: nothing is returned
SQLPropagate(event, exc) ==
    /\ sql_trace' = <<event>>
    /\ sql_error' = exc
    /\ is_sql_response' = <<>>
    /\ sql_pc' = "raised"
    /\ attempt' = 0
    /\ result' = "unbound"
    /\ msg' = "unbound"
    /\ sql_spoken' = <<>>

\* a loop without its handler: the exception leaves reply
SQLExceptPropagates(event) ==
    /\ SQLPropagate(event, "RuntimeError")
    /\ UNCHANGED <<sql_x, sql_printed, sql_turns, sql_response>>
    /\ UNCHANGED notSQL

\* except Exception: print the warning, attempt += 1, and test the loop again
SQLExcept(event) ==
    /\ Did(event)
    /\ sql_printed' = Append(sql_printed, "retrying")
    /\ attempt' = attempt + 1
    /\ sql_pc' = AfterAttempt(attempt + 1)
    /\ UNCHANGED <<sql_x, is_sql_response, result, msg, sql_error, sql_spoken, sql_turns,
                   sql_response>>

\* reply(None), lines 98-109: the model describes the database
SQLDescribe ==
    /\ SQLEnter("None")
    /\ sql_trace' = <<"describe">>
    /\ is_sql_response' = <<>>
    /\ msg' = "description"
    /\ sql_spoken' = <<"description">>
    /\ sql_error' = "none"
    /\ sql_pc' = "returned"
    /\ attempt' = 0
    /\ result' = "unbound"

\* reply(None) when the model call fails: no handler around line 103
SQLDescribeRaises ==
    /\ SQLEnter("None")
    /\ SQLPropagate("describe_raised", "RuntimeError")

\* lines 112-124: the classification call returns response
SQLClassify(response) ==
    /\ SQLEnter("question")
    /\ is_sql_response' = response
    /\ sql_trace' = <<"classify">>
    /\ sql_error' = "none"
    /\ attempt' = 0
    /\ IF IsNotSqlQuestion(response)
       THEN /\ result' = response
            /\ msg' = response
            /\ sql_spoken' = <<response>>
            /\ sql_pc' = "returned"
       ELSE /\ result' = "None"
            /\ msg' = "unbound"
            /\ sql_spoken' = <<>>
            /\ sql_pc' = AfterAttempt(0)

\* line 112 when the model call fails: no handler around it
SQLClassifyRaises ==
    /\ SQLEnter("question")
    /\ SQLPropagate("classify_raised", "RuntimeError")

\* line 128: the model answers text, get_response_from_prompt makes the
\* statement of it
SQLGenerate(text) ==
    /\ sql_pc = "generate"
    /\ Did("generate")
    /\ sql_response' = <<[text |-> text, sql |-> get_response_from_prompt(text)]>>
    /\ sql_pc' = "execute"
    /\ UNCHANGED <<sql_x, is_sql_response, attempt, result, msg, sql_error,
                   sql_printed, sql_spoken, sql_turns>>

\* line 128 when the model call fails
SQLGenerateRaises ==
    /\ sql_pc = "generate"
    /\ SQLExcept("generate_raised")

\* line 131: query_sqlite returns the rows
SQLExecute ==
    /\ sql_pc = "execute"
    /\ Did("execute")
    /\ sql_pc' = "answer"
    /\ UNCHANGED <<sql_x, is_sql_response, attempt, result, msg, sql_error,
                   sql_printed, sql_spoken, sql_turns, sql_response>>

\* line 131 when query_sqlite fails
SQLExecuteRaises ==
    /\ sql_pc = "execute"
    /\ SQLExcept("execute_raised")

\* an attempt that succeeds and goes on to the loop's test all the same
SQLAnswerNoBreak ==
    /\ sql_pc = "answer"
    /\ Did("answer")
    /\ result' = "response_text"
    /\ msg' = "response_text"
    /\ sql_spoken' = Append(sql_spoken, "response_text")
    /\ sql_pc' = AfterAttempt(attempt)
    /\ UNCHANGED <<sql_x, is_sql_response, attempt, sql_error, sql_printed, sql_turns,
                   sql_response>>

\* lines 134-141: the model composes the answer; result, msg, speak, break
SQLAnswer ==
    /\ sql_pc = "answer"
    /\ Did("answer")
    /\ result' = "response_text"
    /\ msg' = "response_text"
    /\ sql_spoken' = Append(sql_spoken, "response_text")
    /\ sql_pc' = "after"
    /\ UNCHANGED <<sql_x, is_sql_response, attempt, sql_error, sql_printed, sql_turns,
                   sql_response>>

\* line 134 when the model call fails
SQLAnswerRaises ==
    /\ sql_pc = "answer"
    /\ SQLExcept("answer_raised")

\* what return msg does: reading an unbound local raises UnboundLocalError
ReturnMsg(m) == IF m = "unbound" THEN "UnboundLocalError" ELSE "none"

\* lines 150-156: the notice when result is None, then return msg
SQLAfterLoop ==
    /\ sql_pc = "after"
    /\ UNCHANGED notSQL
    /\ sql_printed' = IF result = "None"
                      THEN Append(sql_printed, "Sorry, the agent failed to execute query")
                      ELSE sql_printed
    /\ sql_error' = ReturnMsg(msg)
    /\ sql_pc' = IF ReturnMsg(msg) = "none" THEN "returned" ELSE "raised"
    /\ UNCHANGED <<sql_x, is_sql_response, attempt, result, msg, sql_trace,
                   sql_spoken, sql_turns, sql_response>>

SQLNext ==
    \/ SQLDescribe
    \/ SQLDescribeRaises
    \/ \E response \in ClassificationResponses : SQLClassify(response)
    \/ SQLClassifyRaises
    \/ \E text \in SqlTexts : SQLGenerate(text)
    \/ SQLGenerateRaises
    \/ SQLExecute
    \/ SQLExecuteRaises
    \/ SQLAnswer
    \/ SQLAnswerRaises
    \/ SQLAfterLoop

-----------------------------------------------------------------------------
(* CodeActAgent *)

\* self.n_max_executions = 5
n_max_executions == 5

\* Texts are sequences of tokens; the two tags are tokens of their own
OpenTag == "[execute]"
CloseTag == "[/execute]"
TextAnswer == <<"The answer is 2.">>
TextOneBlock == <<"Let me run it.", OpenTag, "\n", "print(1+1)", "\n", CloseTag>>
TextTwoBlocks == <<OpenTag, "a=1", CloseTag, "and then", OpenTag, "b=2", CloseTag>>
TextUnclosed == <<"I would run", OpenTag, "a=1">>

\* the texts the model may answer with
ModelTexts == {TextAnswer, TextOneBlock, TextTwoBlocks, TextUnclosed}

\* the statuses the notebook executor may return
ExecStatuses == {"SUCCESS", "ERROR"}

Msg(name, role, content) == [name |-> name, role |-> role, content |-> content]

\* the messages another agent may send to reply
IncomingMsgs == {Msg("user", "user", <<"question">>),
                 Msg("Bob", "assistant", <<"remark">>)}

\* re.search(r"\[execute\](.*)\[/execute\]", text, re.DOTALL): the leftmost
\* opening tag that a closing tag follows, and, .* being greedy, the last
\* closing tag after it. <<0, 0>> when nothing matches.
SearchExecute(text) ==
    LET opens == {i \in 1..Len(text) : /\ text[i] = OpenTag
                                        /\ \E j \in (i+1)..Len(text) : text[j] = CloseTag}
    IN IF opens = {} THEN <<0, 0>>
       ELSE LET i == CHOOSE a \in opens : \A b \in opens : a <= b
                closes == {j \in (i+1)..Len(text) : text[j] = CloseTag}
                j == CHOOSE a \in closes : \A b \in closes : a >= b
            IN <<i, j>>

\* handle_code_execution, lines 85-91: code is not None
HasCode(text) == SearchExecute(text) # <<0, 0>>

\* handle_code_execution, line 91: code.group(1).strip()
ExtractCode(text) ==
    Strip(SubSeqOrEmpty(text, SearchExecute(text)[1] + 1, SearchExecute(text)[2] - 1))

\* a result message that speaks as the assistant when the execution failed
handle_code_result_by_status(status, content_pre_sring) ==
    Msg("user", IF status = "SUCCESS" THEN "user" ELSE "assistant",
        content_pre_sring \o
        <<IF status = "SUCCESS" THEN "Excution Successful:\n" ELSE "Excution Failed:\n",
          "Execution Output:\n", "output">>)

\* handle_code_result, lines 102-110
handle_code_result(status, content_pre_sring) ==
    Msg("user", "user",
        content_pre_sring \o
        <<IF status = "SUCCESS" THEN "Excution Successful:\n" ELSE "Excution Failed:\n",
          "Execution Output:\n", "output">>)

sys_msg == Msg("system", "system", <<"SYSTEM_MESSAGE">>)
example_msg == Msg("user", "user", <<"EXAMPLE_MESSAGE">>)
code_max_exec_msg == Msg("assitant", "assistant", <<"I have reached the maximum number of executions">>)

\* __init__, lines 54-77: without example code, or with it and its execution
CAInitMemories ==
    {<<sys_msg>>} \cup
    {<<sys_msg, example_msg, handle_code_result(st, <<"Example Code excuted: ">>)>> :
        st \in ExecStatuses}

CAIdle ==
    /\ ca_pc = "idle"
    /\ memory = <<sys_msg>>
    /\ excution_count = 0
    /\ ca_code = <<>>
    /\ ca_trace = <<>>
    /\ ca_entry = <<>>

CAInit ==
    /\ ca_pc = "idle"
    /\ memory \in CAInitMemories
    /\ excution_count = 0
    /\ ca_code = <<>>
    /\ ca_trace = <<>>
    /\ ca_entry = <<>>

\* a test that takes every last entry for a user's
LastIsAnyone(mem) == mem # <<>>

\* self.memory.get_memory(1)[-1].role == "user"
LastIsUser(mem) == mem[Len(mem)].role = "user"

\* a loop that stops one execution too late
CALoopContinuesOneMore(mem, count) == LastIsUser(mem) /\ count <= n_max_executions

\* the loop's test, lines 118-121
CALoopContinues(mem, count) == LastIsUser(mem) /\ count < n_max_executions

\* lines 115-117: the incoming message is added, the count starts at 0
CAReply(x) ==
    /\ ca_pc \in {"idle", "done", "raised"}
    /\ Len(memory) <= MaxMemLen
    /\ memory' = Append(memory, x)
    /\ excution_count' = 0
    /\ ca_code' = <<>>
    /\ ca_trace' = <<>>
    /\ ca_entry' = memory
    /\ ca_pc' = "loop"
    /\ UNCHANGED notCA

\* lines 122-132: the model answers text; the reply is added to the memory
\* and searched for code
CAModelCall(text) ==
    /\ ca_pc = "loop"
    /\ CALoopContinues(memory, excution_count)
    /\ memory' = Append(memory, Msg("assistant_name", "assistant", text))
    /\ ca_trace' = Append(ca_trace, "model")
    /\ IF HasCode(text)
       THEN ca_pc' = "execute" /\ ca_code' = <<ExtractCode(text)>>
       ELSE ca_pc' = "loop" /\ ca_code' = <<>>
    /\ UNCHANGED <<excution_count, ca_entry>>
    /\ UNCHANGED notCA

\* line 123 when the model call fails: nothing in reply catches it
CAModelRaises ==
    /\ ca_pc = "loop"
    /\ CALoopContinues(memory, excution_count)
    /\ ca_pc' = "raised"
    /\ UNCHANGED <<memory, excution_count, ca_code, ca_trace, ca_entry>>
    /\ UNCHANGED notCA

\* an agent that does not count its executions
CAExecuteUncounted(status) ==
    /\ ca_pc = "execute"
    /\ excution_count' = excution_count
    /\ memory' = Append(memory, handle_code_result(status, <<>>))
    /\ ca_trace' = Append(ca_trace, "execute")
    /\ ca_code' = <<>>
    /\ ca_pc' = "loop"
    /\ UNCHANGED ca_entry
    /\ UNCHANGED notCA

\* an agent that files the result message at the head of its memory
CAExecuteAtHead(status) ==
    /\ ca_pc = "execute"
    /\ excution_count' = excution_count + 1
    /\ memory' = <<handle_code_result(status, <<>>)>> \o memory
    /\ ca_trace' = Append(ca_trace, "execute")
    /\ ca_code' = <<>>
    /\ ca_pc' = "loop"
    /\ UNCHANGED ca_entry
    /\ UNCHANGED notCA

\* lines 92 and 133-137: the executor returns; the count and the result message
CAExecute(status) ==
    /\ ca_pc = "execute"
    /\ excution_count' = excution_count + 1
    /\ memory' = Append(memory, handle_code_result(status, <<>>))
    /\ ca_trace' = Append(ca_trace, "execute")
    /\ ca_code' = <<>>
    /\ ca_pc' = "loop"
    /\ UNCHANGED ca_entry
    /\ UNCHANGED notCA

\* lines 139-151: the loop is left; at the ceiling the assertion, then the notice
CAFinish ==
    /\ ca_pc = "loop"
    /\ ~CALoopContinues(memory, excution_count)
    /\ IF excution_count = n_max_executions
       THEN IF LastIsUser(memory)
            THEN memory' = Append(memory, code_max_exec_msg) /\ ca_pc' = "done"
            ELSE memory' = memory /\ ca_pc' = "assertion_failed"
       ELSE memory' = memory /\ ca_pc' = "done"
    /\ UNCHANGED <<excution_count, ca_code, ca_trace, ca_entry>>
    /\ UNCHANGED notCA

CANext ==
    \/ \E x \in IncomingMsgs : CAReply(x)
    \/ \E text \in ModelTexts : CAModelCall(text)
    \/ CAModelRaises
    \/ \E status \in ExecStatuses : CAExecute(status)
    \/ CAFinish

-----------------------------------------------------------------------------
(* The model wrappers: data *)

\* None, and a value that is not None
None == <<>>
Some(v) == <<v>>

\* A dict is a set of <<key, value>> pairs with distinct keys
Keys(d) == {p[1] : p \in d}
Get(d, k, default) == IF k \in Keys(d) THEN (CHOOSE p \in d : p[1] = k)[2] ELSE default

\* {**base, **over}, and base.update(over): the value of over wins
Merge(base, over) == over \cup {p \in base : p[1] \notin Keys(over)}

\* HTTPStatus.OK; str(True), str(False)
HTTP_OK == "200"
PyBool(b) == IF b THEN "True" ELSE "False"

\* the model_type of each wrapper class
ModelTypes == {"dashscope_chat", "dashscope_image_synthesis", "dashscope_text_embedding",
               "dashscope_multimodal", "zhipuai_chat", "zhipuai_embedding"}

\* the generate_args a wrapper may be constructed with
GenerateArgsSet ==
    { {},
      {<<"temperature", "0.5">>, <<"top_p", "0.9">>},
      {<<"temperature", "0.5">>, <<"model", "gen-model">>, <<"result_format", "text">>,
       <<"stream", "gen-stream">>, <<"incremental_output", "False">>} }

\* the extra keyword arguments a call may be made with
CallArgsSet ==
    { {},
      {<<"temperature", "0.9">>, <<"seed", "1">>},
      {<<"temperature", "0.9">>, <<"model", "call-model">>, <<"result_format", "text">>,
       <<"incremental_output", "False">>} }

\* the stream argument of DashScopeChatWrapper.__call__
StreamArgs == {"None", "True", "False"}

\* the messages arguments, by name
MessagesInputs == {"not_a_list", "empty_list", "valid", "no_role", "no_content"}

\* isinstance(messages, list)
IsList(messages) == messages # "not_a_list"

\* the keys of each element of messages
Elems(messages) ==
    CASE messages = "valid" -> <<{"role", "content"}, {"role", "content", "name"}>>
      [] messages = "no_role" -> <<{"role", "content"}, {"content"}>>
      [] messages = "no_content" -> <<{"role"}>>
      [] OTHER -> <<>>

\* the responses of dashscope.Generation.call
GenerationResponse(status_code, request_id, code, message, content, usage) ==
    [status_code |-> status_code, request_id |-> request_id, code |-> code,
     message |-> message, content |-> content, usage |-> usage]

UsageBoth == {<<"input_tokens", 3>>, <<"output_tokens", 5>>}
UsageInputOnly == {<<"input_tokens", 3>>}

\* answers to a blocking request: three that succeeded, two that failed
ChatResponses ==
    {GenerationResponse(HTTP_OK, "req-ok", "", "", <<"a">>, {}),
     GenerationResponse(HTTP_OK, "req-ok", "", "", <<"b", "c">>, UsageInputOnly),
     GenerationResponse(HTTP_OK, "req-ok", "", "", <<"a">>, UsageBoth),
     GenerationResponse("500", "req-500", "InternalError", "server error", <<>>, {}),
     GenerationResponse("429", "req-429", "Throttling", "rate limit", <<>>, {})}

\* the chunks of a streamed response, and the end of the stream
GoodChunks ==
    {GenerationResponse(HTTP_OK, "req-ok", "", "", <<"a">>, {}),
     GenerationResponse(HTTP_OK, "req-ok", "", "", <<"b", "c">>, UsageBoth)}
BadChunks == {GenerationResponse("500", "req-500", "InternalError", "server error", <<>>, {})}
EndOfStream == GenerationResponse("EndOfStream", "", "", "", <<>>, {})

\* ModelResponse(text=, stream=, embedding=, image_urls=, raw=): a field left
\* out is None
ModelResponse(txt, stream, embedding, image_urls, raw) ==
    [text |-> txt, stream |-> stream, embedding |-> embedding,
     image_urls |-> image_urls, raw |-> raw]

Exception(type, message) == [type |-> type, message |-> message]

MetricNames == {"call_counter", "prompt_tokens", "completion_tokens", "total_tokens",
                "image_count"}

\* ModelWrapperBase.update_monitor(**kwargs): each named metric grows by its value
update_monitor(m, kwargs) == [k \in MetricNames |-> m[k] + Get(kwargs, k, 0)]

\* ModelWrapperBase._save_model_invocation(arguments, response): one record
save_model_invocation(arguments, resp) == [arguments |-> arguments, response |-> resp]

-----------------------------------------------------------------------------
(* The model wrappers: how a call ends *)

\* a failure that is counted as a call all the same
RaisedButCounted(req, resp, exc) ==
    [request |-> req, response |-> resp,
     monitor |-> update_monitor(monitor, {<<"call_counter", 1>>}), record |-> None,
     returned |-> None, error |-> Some(exc), stream |-> FALSE]

\* the call raised: nothing is returned
Raised(req, resp, exc) ==
    [request |-> req, response |-> resp, monitor |-> monitor, record |-> None,
     returned |-> None, error |-> Some(exc), stream |-> FALSE]

\* the call returned res, with the monitor at m and rec saved
Returned(req, resp, m, rec, res) ==
    [request |-> Some(req), response |-> Some(resp), monitor |-> m, record |-> Some(rec),
     returned |-> Some(res), error |-> None, stream |-> FALSE]

\* a streamed call whose ModelResponse holds an empty text as well
ReturnedStreamWithText(req, res) ==
    [request |-> Some(req), response |-> None, monitor |-> monitor, record |-> None,
     returned |-> Some([res EXCEPT !.text = Some(<<>>)]), error |-> None, stream |-> TRUE]

\* the call returned a ModelResponse that holds a generator not yet started
ReturnedStream(req, res) ==
    [request |-> Some(req), response |-> None, monitor |-> monitor, record |-> None,
     returned |-> Some(res), error |-> None, stream |-> TRUE]

\* no generator of the wrapper is being consumed
NotStreaming == mw_pc # "streaming"

\* a call is made with args and ends as out
Call(args, out) ==
    /\ NotStreaming
    /\ n_calls < MaxCalls
    /\ n_calls' = n_calls + 1
    /\ n_ok' = IF out.response # None /\ out.response[1].status_code = HTTP_OK
               THEN n_ok + 1 ELSE n_ok
    /\ call_args' = Some(args)
    /\ before' = [monitor |-> monitor, n_saved |-> n_saved, n_requests |-> n_requests]
    /\ request' = out.request
    /\ n_requests' = n_requests + Len(out.request)
    /\ mw_response' = out.response
    /\ monitor' = out.monitor
    /\ record' = out.record
    /\ n_saved' = n_saved + Len(out.record)
    /\ returned' = out.returned
    /\ mw_error' = out.error
    /\ mw_pc' = IF out.error # None THEN "raised"
                ELSE IF out.stream THEN "streaming" ELSE "returned"
    /\ gen_pos' = IF out.stream THEN "created" ELSE "none"
    /\ gen_text' = <<>>
    /\ last_chunk' = None
    /\ delivered' = <<>>
    /\ yielded' = <<>>
    /\ UNCHANGED wrapper
    /\ UNCHANGED notMW

-----------------------------------------------------------------------------
(* DashScopeChatWrapper *)

\* lines 208-212 with a key left unchecked
DashScopeMessagesValidRoleOnly(messages) ==
    \A i \in 1..Len(Elems(messages)) : "role" \in Elems(messages)[i]

\* line 208: all("role" in msg and "content" in msg for msg in messages)
DashScopeMessagesValid(messages) ==
    \A i \in 1..Len(Elems(messages)) :
        "role" \in Elems(messages)[i] /\ "content" \in Elems(messages)[i]

\* the message without the request id
GenerationErrorMessageNoId(resp) ==
    <<"Request id: ", ",\nStatus code: ", resp.status_code, ",\nError code: ", resp.code,
      ",\nError message: ", resp.message, ".">>

\* lines 270-275: the four fields of the failed response
GenerationErrorMessage(resp) ==
    <<"Request id: ", resp.request_id, ",\nStatus code: ", resp.status_code,
      ",\nError code: ", resp.code, ",\nError message: ", resp.message, ".">>

\* an update that counts the prompt tokens only
bookkeeping_total_is_input(m, kwargs, resp) ==
    [monitor |-> update_monitor(m,
        {<<"call_counter", 1>>,
         <<"prompt_tokens", Get(resp.usage, "input_tokens", 0)>>,
         <<"completion_tokens", Get(resp.usage, "output_tokens", 0)>>,
         <<"total_tokens", Get(resp.usage, "input_tokens", 0)>>}),
     record |-> save_model_invocation(kwargs, resp)]

\* _save_model_invocation_and_update_monitor, lines 303-318
save_model_invocation_and_update_monitor(m, kwargs, resp) ==
    LET input_tokens == Get(resp.usage, "input_tokens", 0)
        output_tokens == Get(resp.usage, "output_tokens", 0)
    IN [monitor |-> update_monitor(m,
            {<<"call_counter", 1>>,
             <<"prompt_tokens", input_tokens>>,
             <<"completion_tokens", output_tokens>>,
             <<"total_tokens", input_tokens + output_tokens>>}),
        record |-> save_model_invocation(kwargs, resp)]

\* keyword arguments in which the options win over the keys the wrapper sets
DashScopeChatKwargsOptionsLast(w, messages, stream, kwargs) ==
    LET merged == Merge(w.generate_args, kwargs)
        fixed == Merge({<<"model", w.model_name>>,
                        <<"messages", messages>>,
                        <<"result_format", "message">>,
                        <<"stream", PyBool(stream)>>}, merged)
    IN IF stream THEN Merge({<<"incremental_output", "True">>}, fixed) ELSE fixed

\* lines 215-230: the keyword arguments of the request
DashScopeChatKwargs(w, messages, stream, kwargs) ==
    LET merged == Merge(w.generate_args, kwargs)
        fixed == Merge(merged, {<<"model", w.model_name>>,
                                <<"messages", messages>>,
                                <<"result_format", "message">>,
                                <<"stream", PyBool(stream)>>})
    IN IF stream THEN Merge(fixed, {<<"incremental_output", "True">>}) ELSE fixed

\* lines 215-216: the constructor's flag when the argument is None
EffectiveStream(w, stream) == IF stream = "None" THEN w.stream ELSE stream = "True"

\* DashScopeChatWrapper.__call__, lines 199-288; resp is what the provider
\* answers a blocking request with
DashScopeChat(w, messages, stream, kwargs, resp) ==
    IF ~IsList(messages)
    THEN Raised(None, None, Exception("ValueError", <<"messages field expected type list">>))
    ELSE IF ~DashScopeMessagesValid(messages)
    THEN Raised(None, None, Exception("ValueError", <<"must contain a 'role' and 'content' key">>))
    ELSE LET st == EffectiveStream(w, stream)
             req == [api |-> "dashscope.Generation.call",
                     kwargs |-> DashScopeChatKwargs(w, messages, st, kwargs)]
         IN IF st
            THEN ReturnedStream(req, ModelResponse(None, Some("generator"), None, None,
                                                   Some("response")))
            ELSE IF resp.status_code # HTTP_OK
            THEN Raised(Some(req), Some(resp),
                        Exception("RuntimeError", GenerationErrorMessage(resp)))
            ELSE LET done == save_model_invocation_and_update_monitor(monitor, req.kwargs, resp)
                 IN Returned(req, resp, done.monitor, done.record,
                             ModelResponse(Some(resp.content), None, None, None, Some(resp)))

\* what the provider may answer this call with: something only when the call
\* gets as far as a blocking request
DashScopeChatAnswers(w, messages, stream) ==
    IF IsList(messages) /\ DashScopeMessagesValid(messages) /\ ~EffectiveStream(w, stream)
    THEN ChatResponses
    ELSE {EndOfStream}

DashScopeChatCall(messages, stream, kwargs, resp) ==
    /\ wrapper.model_type = "dashscope_chat"
    /\ Call([messages |-> messages, stream |-> stream, kwargs |-> kwargs],
            DashScopeChat(wrapper, messages, stream, kwargs, resp))

-----------------------------------------------------------------------------
(* The other wrappers: each call is one blocking request *)

\* f(model=..., x=..., **kwargs) raises TypeError when kwargs names a keyword
\* that is also given explicitly
DuplicateKeyword(kwargs, explicit) == Keys(kwargs) \cap Keys(explicit) # {}

MultipleValues == Exception("TypeError", <<"got multiple values for keyword argument">>)

\* lines 490-495, 587-592, 717-722: the four fields of the failed response
ApiErrorMessage(resp) ==
    <<" Request id: ", resp.request_id, ", Status code: ", resp.status_code,
      ", error code: ", resp.code, ", error message: ", resp.message, ".">>

\* the call raised after it had saved its record and updated the monitor
RaisedAfter(req, resp, m, rec, exc) ==
    [request |-> Some(req), response |-> Some(resp), monitor |-> m, record |-> Some(rec),
     returned |-> None, error |-> Some(exc), stream |-> FALSE]

ServerError == GenerationResponse("500", "req-500", "InternalError", "server error", <<>>, {})

\* ---- DashScopeImageSynthesisWrapper

Url(id) == [id |-> id, local |-> FALSE]

\* file_manager.save_image(url): the local path of the saved image
save_image(url) == [id |-> url.id, local |-> TRUE]

ImageResponses ==
    {GenerationResponse(HTTP_OK, "req-ok", "", "", <<Url(1)>>, {<<"image_count", 1>>}),
     GenerationResponse(HTTP_OK, "req-ok", "", "", <<Url(1), Url(2)>>, {<<"image_count", 2>>}),
     ServerError}

\* DashScopeImageSynthesisWrapper.__call__, lines 480-522
DashScopeImageSynthesis(w, prompt, save_local, kwargs, resp) ==
    LET merged == Merge(w.generate_args, kwargs)
        explicit == {<<"model", w.model_name>>, <<"prompt", prompt>>}
        req == [api |-> "dashscope.ImageSynthesis.call", kwargs |-> explicit \cup merged]
    IN IF DuplicateKeyword(merged, explicit) THEN Raised(None, None, MultipleValues)
       ELSE IF resp.status_code # HTTP_OK
       THEN Raised(Some(req), Some(resp), Exception("RuntimeError", ApiErrorMessage(resp)))
       ELSE LET urls == resp.content
            IN Returned(req, resp,
                        update_monitor(monitor, Merge({<<"call_counter", 1>>}, resp.usage)),
                        save_model_invocation(Merge(explicit, merged), resp),
                        ModelResponse(None, None, None,
                            Some(IF save_local
                                 THEN [i \in 1..Len(urls) |-> save_image(urls[i])]
                                 ELSE urls),
                            Some(resp)))

\* ---- DashScopeTextEmbeddingWrapper

EmbeddingResponses ==
    {GenerationResponse(HTTP_OK, "req-ok", "", "", <<>>, {<<"total_tokens", 0>>}),
     GenerationResponse(HTTP_OK, "req-ok", "", "", <<<<1, 2>>>>, {<<"total_tokens", 4>>}),
     GenerationResponse(HTTP_OK, "req-ok", "", "", <<<<1, 2>>, <<3, 4>>>>, {<<"total_tokens", 7>>}),
     ServerError}

\* DashScopeTextEmbeddingWrapper.__call__, lines 576-615
DashScopeTextEmbedding(w, texts, kwargs, resp) ==
    LET merged == Merge(w.generate_args, kwargs)
        explicit == {<<"input", texts>>, <<"model", w.model_name>>}
        req == [api |-> "dashscope.TextEmbedding.call", kwargs |-> explicit \cup merged]
    IN IF DuplicateKeyword(merged, explicit) THEN Raised(None, None, MultipleValues)
       ELSE IF resp.status_code # HTTP_OK
       THEN Raised(Some(req), Some(resp), Exception("RuntimeError", ApiErrorMessage(resp)))
       ELSE Returned(req, resp,
                     update_monitor(monitor, Merge({<<"call_counter", 1>>}, resp.usage)),
                     save_model_invocation(Merge(explicit, merged), resp),
                     ModelResponse(None, None,
                         Some([i \in 1..Len(resp.content) |-> resp.content[i]]),
                         None, Some(resp)))

\* ---- DashScopeMultiModalWrapper

\* the content of a multimodal answer: a string, or a list whose first block
\* holds the text
StrContent(txt) == [is_list |-> FALSE, text |-> txt]
ListContent(txt) == [is_list |-> TRUE, text |-> txt]

UsageMultiModal == {<<"input_tokens", 3>>, <<"output_tokens", 5>>, <<"image_tokens", 7>>,
                    <<"audio_tokens", 11>>}

MultiModalResponses ==
    {GenerationResponse(HTTP_OK, "req-ok", "", "", StrContent(<<"a">>), {}),
     GenerationResponse(HTTP_OK, "req-ok", "", "", ListContent(<<"b", "c">>), UsageMultiModal),
     ServerError}

\* DashScopeMultiModalWrapper.__call__, lines 704-758
DashScopeMultiModal(w, messages, kwargs, resp) ==
    LET merged == Merge(w.generate_args, kwargs)
        explicit == {<<"model", w.model_name>>, <<"messages", messages>>}
        req == [api |-> "dashscope.MultiModalConversation.call", kwargs |-> explicit \cup merged]
        input_tokens == Get(resp.usage, "input_tokens", 0)
        image_tokens == Get(resp.usage, "image_tokens", 0)
        audio_tokens == Get(resp.usage, "audio_tokens", 0)
        output_tokens == Get(resp.usage, "output_tokens", 0)
    IN IF DuplicateKeyword(merged, explicit) THEN Raised(None, None, MultipleValues)
       ELSE IF resp.status_code # HTTP_OK
       THEN Raised(Some(req), Some(resp), Exception("RuntimeError", ApiErrorMessage(resp)))
       ELSE Returned(req, resp,
                     update_monitor(monitor,
                         {<<"call_counter", 1>>,
                          <<"prompt_tokens", input_tokens>>,
                          <<"completion_tokens", output_tokens>>,
                          <<"total_tokens",
                            input_tokens + output_tokens + image_tokens + audio_tokens>>}),
                     save_model_invocation(Merge(explicit, merged), resp),
                     ModelResponse(Some(resp.content.text), None, None, None, Some(resp)))

\* ---- ZhipuAIChatWrapper

UsageZhipu == {<<"prompt_tokens", 3>>, <<"completion_tokens", 5>>, <<"total_tokens", 8>>}

\* what client.chat.completions.create returns; the client raises by itself
\* when the request fails
ZhipuChatResponses ==
    {GenerationResponse(HTTP_OK, "req-ok", "", "", <<"a">>, UsageZhipu),
     GenerationResponse(HTTP_OK, "req-ok", "", "", <<"b", "c">>, UsageZhipu),
     ServerError}

\* line 148: all("role" in msg and "content" in msg for msg in messages)
ZhipuMessagesValid(messages) ==
    \A i \in 1..Len(Elems(messages)) :
        "role" \in Elems(messages)[i] /\ "content" \in Elems(messages)[i]

\* ZhipuAIChatWrapper.__call__, lines 139-178
ZhipuAIChat(w, messages, kwargs, resp) ==
    LET merged == Merge(w.generate_args, kwargs)
        explicit == {<<"model", w.model_name>>, <<"messages", messages>>}
        req == [api |-> "client.chat.completions.create", kwargs |-> explicit \cup merged]
    IN IF ~IsList(messages)
       THEN Raised(None, None, Exception("ValueError", <<"messages field expected type list">>))
       ELSE IF ~ZhipuMessagesValid(messages)
       THEN Raised(None, None, Exception("ValueError", <<"must contain a 'role' and 'content' key">>))
       ELSE IF DuplicateKeyword(merged, explicit) THEN Raised(None, None, MultipleValues)
       ELSE IF resp.status_code # HTTP_OK
       THEN Raised(Some(req), Some(resp), Exception("APIStatusError", <<resp.status_code>>))
       ELSE Returned(req, resp,
                     update_monitor(monitor, Merge({<<"call_counter", 1>>}, resp.usage)),
                     save_model_invocation(Merge(explicit, merged), resp),
                     ModelResponse(Some(resp.content), None, None, None, Some(resp)))

\* ---- ZhipuAIEmbeddingWrapper

\* ZhipuAIEmbeddingWrapper.__call__, lines 296-329
ZhipuAIEmbedding(w, texts, kwargs, resp) ==
    LET merged == Merge(w.generate_args, kwargs)
        explicit == {<<"input", texts>>, <<"model", w.model_name>>}
        \* lines 300-303: the merged options are not handed to the request
        req == [api |-> "client.embeddings.create", kwargs |-> explicit]
        m == update_monitor(monitor, Merge({<<"call_counter", 1>>}, resp.usage))
        rec == save_model_invocation(Merge(explicit, merged), resp)
    IN IF resp.status_code # HTTP_OK
       THEN Raised(Some(req), Some(resp), Exception("APIStatusError", <<resp.status_code>>))
       ELSE IF Len(resp.content) = 0
       THEN \* line 322: response_json["data"]["embedding"] indexes a list by a string
            RaisedAfter(req, resp, m, rec,
                        Exception("TypeError", <<"list indices must be integers or slices, not str">>))
       ELSE Returned(req, resp, m, rec,
                     ModelResponse(None, None,
                         Some([i \in 1..Len(resp.content) |-> resp.content[i]]),
                         None, Some(resp)))

\* ---- the calls

DashScopeImageSynthesisCall(save_local, kwargs, resp) ==
    /\ wrapper.model_type = "dashscope_image_synthesis"
    /\ Call([prompt |-> "prompt", save_local |-> save_local, kwargs |-> kwargs],
            DashScopeImageSynthesis(wrapper, "prompt", save_local, kwargs, resp))

DashScopeTextEmbeddingCall(kwargs, resp) ==
    /\ wrapper.model_type = "dashscope_text_embedding"
    /\ Call([texts |-> "texts", kwargs |-> kwargs],
            DashScopeTextEmbedding(wrapper, "texts", kwargs, resp))

DashScopeMultiModalCall(messages, kwargs, resp) ==
    /\ wrapper.model_type = "dashscope_multimodal"
    /\ Call([messages |-> messages, kwargs |-> kwargs],
            DashScopeMultiModal(wrapper, messages, kwargs, resp))

ZhipuAIChatCall(messages, kwargs, resp) ==
    /\ wrapper.model_type = "zhipuai_chat"
    /\ Call([messages |-> messages, kwargs |-> kwargs],
            ZhipuAIChat(wrapper, messages, kwargs, resp))

ZhipuAIEmbeddingCall(kwargs, resp) ==
    /\ wrapper.model_type = "zhipuai_embedding"
    /\ Call([texts |-> "texts", kwargs |-> kwargs],
            ZhipuAIEmbedding(wrapper, "texts", kwargs, resp))

-----------------------------------------------------------------------------
(* DashScopeChatWrapper: the generator of a streamed response, lines 237-261 *)

\* a test that lets every chunk through
ChunkNeverFails(chunk) == FALSE

\* line 241: chunk.status_code != HTTPStatus.OK
ChunkFailed(chunk) == chunk.status_code # HTTP_OK

\* lines 242-247: the four fields of the failed chunk
StreamErrorMessage(chunk) ==
    <<"Request id: ", chunk.request_id, "\nStatus code: ", chunk.status_code,
      "\nError code: ", chunk.code, "\nError message: ", chunk.message>>

\* a generator that yields each chunk's own content
AccumulateDelta(txt, chunk) == chunk.content

\* line 250: text += chunk.output["choices"][0]["message"]["content"]
Accumulate(txt, chunk) == txt \o chunk.content

\* a generator that leaves the last chunk as the provider sent it
KeepContent(chunk, txt) == chunk

\* line 255: last_chunk.output["choices"][0]["message"]["content"] = text
ReplaceContent(chunk, txt) == [chunk EXCEPT !.content = txt]

\* line 252 runs when the generator is resumed after a yield
ResumedLastChunk ==
    IF gen_pos = "suspended" THEN Some(delivered[Len(delivered)]) ELSE last_chunk

\* bookkeeping inside the loop as well: once per chunk
StreamBookkeepingPerChunk(nxt, last, txt) ==
    IF nxt = EndOfStream
    THEN (IF last = None THEN None ELSE Some(ReplaceContent(last[1], txt)))
    ELSE IF ChunkFailed(nxt) THEN None
    ELSE Some(ReplaceContent(nxt, Accumulate(txt, nxt)))

\* lines 254-261 follow the loop: the response handed to
\* _save_model_invocation_and_update_monitor when the generator is resumed and
\* the provider delivers nxt, None when it is not called
StreamBookkeeping(nxt, last, txt) ==
    IF nxt = EndOfStream /\ last # None THEN Some(ReplaceContent(last[1], txt)) ELSE None

\* next(stream): the generator runs until it yields, ends or raises
StreamNext(nxt) ==
    /\ mw_pc = "streaming"
    /\ nxt # EndOfStream => Len(delivered) < MaxChunks
    /\ LET last == ResumedLastChunk
           book == StreamBookkeeping(nxt, last, gen_text)
           done == save_model_invocation_and_update_monitor(monitor, request[1].kwargs, book[1])
       IN /\ monitor' = IF book = None THEN monitor ELSE done.monitor
          /\ record' = IF book = None THEN record ELSE Some(done.record)
          /\ n_saved' = n_saved + Len(book)
          /\ n_ok' = IF nxt = EndOfStream /\ last # None THEN n_ok + 1 ELSE n_ok
          /\ IF nxt = EndOfStream
             THEN /\ UNCHANGED <<delivered, yielded, gen_text, mw_response>>
                  /\ IF last = None
                     THEN \* None has no attribute output
                          /\ mw_error' = Some(Exception("AttributeError", <<"'NoneType' object">>))
                          /\ gen_pos' = "raised"
                          /\ mw_pc' = "stream_raised"
                          /\ last_chunk' = last
                     ELSE /\ mw_error' = None
                          /\ gen_pos' = "done"
                          /\ mw_pc' = "drained"
                          /\ last_chunk' = Some(ReplaceContent(last[1], gen_text))
             ELSE /\ delivered' = Append(delivered, nxt)
                  /\ mw_response' = Some(nxt)
                  /\ last_chunk' = last
                  /\ IF ChunkFailed(nxt)
                     THEN /\ mw_error' = Some(Exception("RuntimeError", StreamErrorMessage(nxt)))
                          /\ gen_pos' = "raised"
                          /\ mw_pc' = "stream_raised"
                          /\ UNCHANGED <<yielded, gen_text>>
                     ELSE /\ mw_error' = None
                          /\ gen_text' = Accumulate(gen_text, nxt)
                          /\ yielded' = Append(yielded, Accumulate(gen_text, nxt))
                          /\ gen_pos' = "suspended"
                          /\ mw_pc' = "streaming"
    /\ UNCHANGED <<wrapper, n_requests, n_calls, call_args, before, request, returned>>
    /\ UNCHANGED notMW

\* the consumer drops the stream before its end: the generator is closed where
\* it stands
StreamAbandon ==
    /\ mw_pc = "streaming"
    /\ gen_pos' = "closed"
    /\ mw_pc' = "abandoned"
    /\ UNCHANGED <<wrapper, monitor, n_saved, n_requests, n_calls, n_ok, call_args, before,
                   request, mw_response, record, returned, mw_error,
                   gen_text, last_chunk, delivered, yielded>>
    /\ UNCHANGED notMW

-----------------------------------------------------------------------------
(* The wrapper objects *)

Wrapper(model_type, generate_args, stream) ==
    [model_type |-> model_type, model_name |-> "wrapper-model",
     generate_args |-> generate_args, stream |-> stream]

\* __init__: generate_args or {}, and, for the chat wrapper, the stream flag
Wrappers ==
    {Wrapper(t, g, st) : t \in ModelTypes, g \in GenerateArgsSet, st \in BOOLEAN}
    \ {Wrapper(t, g, TRUE) : t \in ModelTypes \ {"dashscope_chat"}, g \in GenerateArgsSet}

\* a wrapper after construction: the metrics are registered, nothing was called
MWNew(w) ==
    /\ wrapper = w
    /\ monitor = [k \in MetricNames |-> 0]
    /\ n_saved = 0
    /\ n_requests = 0
    /\ n_calls = 0
    /\ n_ok = 0
    /\ mw_pc = "idle"
    /\ call_args = None
    /\ before = None
    /\ request = None
    /\ mw_response = None
    /\ record = None
    /\ returned = None
    /\ mw_error = None
    /\ gen_pos = "none"
    /\ gen_text = <<>>
    /\ last_chunk = None
    /\ delivered = <<>>
    /\ yielded = <<>>

MWIdle == MWNew(Wrapper("dashscope_chat", {}, FALSE))

MWInit == \E w \in Wrappers : MWNew(w)

MWNext ==
    \/ \E messages \in MessagesInputs, stream \in StreamArgs, kwargs \in CallArgsSet :
          \E resp \in DashScopeChatAnswers(wrapper, messages, stream) :
            DashScopeChatCall(messages, stream, kwargs, resp)
    \/ \E nxt \in GoodChunks \cup BadChunks \cup {EndOfStream} : StreamNext(nxt)
    \/ StreamAbandon
    \/ \E save_local \in BOOLEAN, kwargs \in CallArgsSet, resp \in ImageResponses :
            DashScopeImageSynthesisCall(save_local, kwargs, resp)
    \/ \E kwargs \in CallArgsSet, resp \in EmbeddingResponses :
            DashScopeTextEmbeddingCall(kwargs, resp)
    \/ \E messages \in MessagesInputs, kwargs \in CallArgsSet, resp \in MultiModalResponses :
            DashScopeMultiModalCall(messages, kwargs, resp)
    \/ \E messages \in MessagesInputs, kwargs \in CallArgsSet, resp \in ZhipuChatResponses :
            ZhipuAIChatCall(messages, kwargs, resp)
    \/ \E kwargs \in CallArgsSet, resp \in EmbeddingResponses :
            ZhipuAIEmbeddingCall(kwargs, resp)

-----------------------------------------------------------------------------
(* The wrappers' format: a pure function of its positional arguments *)

\* ---- urls: a message's url field is None, a str, a list, or something else

FigLocal == "figure1.png"
FigWeb == "http://host/figure2.jpg"
AudioLocal == "voice.mp3"
VideoWeb == "http://host/clip.mp4"
DocLocal == "notes.txt"

UrlNone == [type |-> "NoneType", v |-> <<>>]
UrlStr(path) == [type |-> "str", v |-> <<path>>]
UrlList(urls) == [type |-> "list", v |-> urls]
UrlTuple(urls) == [type |-> "tuple", v |-> urls]

Extension(path) ==
    CASE path = FigLocal -> "png"
      [] path = FigWeb -> "jpg"
      [] path = AudioLocal -> "mp3"
      [] path = VideoWeb -> "mp4"
      [] OTHER -> "txt"

\* utils.tools._guess_type_by_extension: the media type of the extension
guess_type_by_extension(path) ==
    CASE Extension(path) \in {"png", "jpg"} -> "image"
      [] Extension(path) \in {"mp3"} -> "audio"
      [] Extension(path) \in {"mp4"} -> "video"
      [] OTHER -> "unknown"

\* os.path.exists: the files of the local disk
path_exists(path) == path \in {FigLocal, AudioLocal, DocLocal}

\* one block of a multimodal content list: {key: value}, the value a string
Block(key, value) == [key |-> key, value |-> value]

ConvertOk(dicts) == [raised |-> FALSE, dicts |-> dicts]
ConvertTypeError == [raised |-> TRUE, dicts |-> <<>>]

RECURSIVE convert_url(_)
RECURSIVE convert_each(_)

\* DashScopeMultiModalWrapper.convert_url, lines 928-953
convert_url(url) ==
    IF url.type = "NoneType" THEN ConvertOk(<<>>)
    ELSE IF url.type = "str"
    THEN LET path == url.v[1]
             url_type == guess_type_by_extension(path)
         IN IF url_type \in {"audio", "image"}
            THEN ConvertOk(<<Block(url_type,
                                   IF path_exists(path) THEN <<"file://", path>> ELSE <<path>>)>>)
            ELSE ConvertOk(<<>>)
    ELSE IF url.type = "list" THEN convert_each(url.v)
    ELSE ConvertTypeError

\* lines 946-949: the blocks of each element, in order
convert_each(urls) ==
    IF urls = <<>> THEN ConvertOk(<<>>)
    ELSE LET head == convert_url(Head(urls))
             rest == convert_each(Tail(urls))
         IN IF head.raised \/ rest.raised THEN ConvertTypeError
            ELSE ConvertOk(head.dicts \o rest.dicts)

\* ---- the arguments

\* Msg(name, content, role=..., url=...)
MsgWithUrl(name, content, role, url) ==
    [cls |-> "Msg", name |-> name, content |-> content, role |-> role, url |-> url]

\* something that is not a message
NotAMsg == [cls |-> "str", name |-> "", content |-> "", role |-> "", url |-> UrlNone]

SysPlain == MsgWithUrl("system", "You're a helpful assistant", "system", UrlNone)
SysFig == MsgWithUrl("system", "Describe the figures", "system", UrlStr(FigLocal))
BobFigs == MsgWithUrl("Bob", "How about this picture?", "assistant",
                      UrlList(<<UrlStr(FigWeb), UrlStr(DocLocal), UrlStr(AudioLocal)>>))
UserPlain == MsgWithUrl("user", "It's wonderful!", "user", UrlNone)
UserVideo == MsgWithUrl("user", "Watch this", "user", UrlStr(VideoWeb))
UserTuple == MsgWithUrl("user", "And these", "user", UrlTuple(<<UrlStr(FigWeb)>>))

FormatMsgs == {SysPlain, SysFig, BobFigs, UserPlain, UserVideo, UserTuple}

ArgNone == [type |-> "NoneType", v |-> <<>>]
ArgMsg(m) == [type |-> "Msg", v |-> <<m>>]
ArgList(ms) == [type |-> "list", v |-> ms]
ArgTuple(ms) == [type |-> "tuple", v |-> ms]
ArgStr == [type |-> "str", v |-> <<NotAMsg>>]

FormatArgs ==
    {ArgNone, ArgStr, ArgTuple(<<UserPlain>>)}
    \cup {ArgMsg(m) : m \in FormatMsgs}
    \cup {ArgList(<<>>), ArgList(<<SysFig, BobFigs>>), ArgList(<<UserPlain, SysFig>>),
          ArgList(<<UserPlain, NotAMsg>>)}

RECURSIVE SeqsUpTo(_, _)
\* the sequences over S of length at most n
SeqsUpTo(S, n) ==
    IF n = 0 THEN {<<>>}
    ELSE SeqsUpTo(S, n - 1) \cup {Append(q, x) : q \in {r \in SeqsUpTo(S, n - 1) : Len(r) = n - 1}, x \in S}

\* ---- parsing the arguments into input_msgs

\* isinstance(_, Msg) / isinstance(_, MessageBase)
IsMsg(x) == x.cls = "Msg"

ParsedOk(msgs) == [raised |-> FALSE, input_msgs |-> msgs]
ParsedTypeError == [raised |-> TRUE, input_msgs |-> <<>>]

\* a loop that takes every list for a list of messages
AllListsAccepted(arg) == arg.type = "list"

\* line 380: isinstance(_, list) and all(isinstance(__, Msg) for __ in _)
IsListOfMsgs(arg) == arg.type = "list" /\ \A i \in 1..Len(arg.v) : IsMsg(arg.v[i])

RECURSIVE ParseArgs(_)
\* lines 374-386 (zhipu_model.py 206-220): None is skipped, a message is
\* appended, a list of messages extends, anything else raises TypeError
ParseArgs(args) ==
    IF args = <<>> THEN ParsedOk(<<>>)
    ELSE LET arg == Head(args)
             rest == ParseArgs(Tail(args))
         IN IF arg.type = "NoneType" THEN rest
            ELSE IF arg.type = "Msg" /\ IsMsg(arg.v[1])
            THEN (IF rest.raised THEN ParsedTypeError
                  ELSE ParsedOk(<<arg.v[1]>> \o rest.input_msgs))
            ELSE IF IsListOfMsgs(arg)
            THEN (IF rest.raised THEN ParsedTypeError
                  ELSE ParsedOk(arg.v \o rest.input_msgs))
            ELSE ParsedTypeError

\* ---- the prompt

\* utils.tools._convert_to_str on a str: the string itself
convert_to_str(content) == <<content>>

\* a line that leaves the speaker out
DialogueLineContentOnly(unit) == convert_to_str(unit.content)

\* line 404: f"{unit.name}: {_convert_to_str(unit.content)}"
DialogueLine(unit) == <<unit.name, ": ">> \o convert_to_str(unit.content)

RECURSIVE JoinLines(_)
\* line 407: "\n".join(dialogue)
JoinLines(dialogue) ==
    IF dialogue = <<>> THEN <<>>
    ELSE IF Len(dialogue) = 1 THEN dialogue[1]
    ELSE dialogue[1] \o <<"\n">> \o JoinLines(Tail(dialogue))

\* lines 409, 414-416: the template, filled
UserContent(dialogue) == <<"## Dialogue History\n">> \o JoinLines(dialogue)

\* a loop that takes every system message for the system prompt
AnySystemIsPrompt(input_msgs, i) == input_msgs[i].role = "system"

\* line 393: i == 0 and unit.role == "system"
IsSystemPrompt(input_msgs, i) == i = 1 /\ input_msgs[i].role = "system"

\* the indices the loop sends to the dialogue, in order
DialogueUnits(input_msgs) ==
    SelectSeq([i \in 1..Len(input_msgs) |-> i], LAMBDA i : ~IsSystemPrompt(input_msgs, i))

\* the indices the loop makes a system entry of, in order
SystemUnits(input_msgs) ==
    SelectSeq([i \in 1..Len(input_msgs) |-> i], LAMBDA i : IsSystemPrompt(input_msgs, i))

\* lines 403-405: the dialogue, one line per unit
Dialogue(input_msgs) ==
    LET units == DialogueUnits(input_msgs)
    IN [k \in 1..Len(units) |-> DialogueLine(input_msgs[units[k]])]

Entry(role, content) == [role |-> role, content |-> content]

Formatted(messages) == [messages |-> Some(messages), error |-> None]
FormatTypeError ==
    [messages |-> None,
     error |-> Some(Exception("TypeError",
                              <<"The input should be a Msg object or a list of Msg objects">>))]

\* lines 388-420: the system entries, then the one user entry
ChatPrompt(input_msgs) ==
    LET units == SystemUnits(input_msgs)
    IN [k \in 1..Len(units) |->
            Entry(input_msgs[units[k]].role, convert_to_str(input_msgs[units[k]].content))]
       \o <<Entry("user", UserContent(Dialogue(input_msgs)))>>

\* DashScopeChatWrapper.format, lines 373-420
DashScopeChatFormat(args) ==
    LET parsed == ParseArgs(args)
    IN IF parsed.raised THEN FormatTypeError ELSE Formatted(ChatPrompt(parsed.input_msgs))

\* ZhipuAIChatWrapper.format, lines 205-254
ZhipuAIChatFormat(args) ==
    LET parsed == ParseArgs(args)
    IN IF parsed.raised THEN FormatTypeError ELSE Formatted(ChatPrompt(parsed.input_msgs))

\* ---- DashScopeMultiModalWrapper.format

FormatUrlTypeError ==
    [messages |-> None,
     error |-> Some(Exception("TypeError", <<"Unsupported url type, str or list expected.">>))]

\* lines 877-878: the system message's media blocks, then its text appended
SystemContent(unit) ==
    convert_url(unit.url).dicts \o <<Block("text", convert_to_str(unit.content))>>

RECURSIVE ExtendAll(_, _)
\* line 892, over the loop: the blocks of units[1], units[2], ... in order
ExtendAll(input_msgs, units) ==
    IF units = <<>> THEN <<>>
    ELSE convert_url(input_msgs[Head(units)].url).dicts \o ExtendAll(input_msgs, Tail(units))

\* a user entry with the dialogue history before the media
UserBlocksTextFirst(image_or_audio_dicts, dialogue) ==
    <<Block("text", UserContent(dialogue))>> \o image_or_audio_dicts

\* lines 901-909: the media blocks, then the dialogue history
UserBlocks(image_or_audio_dicts, dialogue) ==
    image_or_audio_dicts \o <<Block("text", UserContent(dialogue))>>

\* a unit's url makes convert_url raise
UrlRaises(input_msgs) ==
    \E i \in 1..Len(input_msgs) : convert_url(input_msgs[i].url).raised

\* lines 869-913
MultiModalPrompt(input_msgs) ==
    LET units == SystemUnits(input_msgs)
    IN [k \in 1..Len(units) |->
            Entry(input_msgs[units[k]].role, SystemContent(input_msgs[units[k]]))]
       \o <<Entry("user", UserBlocks(ExtendAll(input_msgs, DialogueUnits(input_msgs)),
                                     Dialogue(input_msgs)))>>

\* DashScopeMultiModalWrapper.format, lines 854-913
DashScopeMultiModalFormat(args) ==
    LET parsed == ParseArgs(args)
    IN IF parsed.raised THEN FormatTypeError
       ELSE IF UrlRaises(parsed.input_msgs) THEN FormatUrlTypeError
       ELSE Formatted(MultiModalPrompt(parsed.input_msgs))

\* ---- the calls

FmtNew(args) ==
    /\ fmt_pc = "idle"
    /\ fmt_args = args
    /\ fmt_by = "none"
    /\ fmt_out = None
    /\ fmt_error = None

FmtIdle == FmtNew(<<>>)

FmtInit == \E args \in SeqsUpTo(FormatArgs, MaxArgs) : FmtNew(args)

Format(by, out) ==
    /\ fmt_pc' = IF out.error # None THEN "raised" ELSE "returned"
    /\ fmt_by' = by
    /\ fmt_out' = out.messages
    /\ fmt_error' = out.error
    /\ UNCHANGED fmt_args
    /\ UNCHANGED notFmt

DashScopeChatFormatCall ==
    /\ fmt_pc = "idle"
    /\ Format("dashscope_chat", DashScopeChatFormat(fmt_args))

ZhipuAIChatFormatCall ==
    /\ fmt_pc = "idle"
    /\ Format("zhipuai_chat", ZhipuAIChatFormat(fmt_args))

DashScopeMultiModalFormatCall ==
    /\ fmt_pc = "idle"
    /\ Format("dashscope_multimodal", DashScopeMultiModalFormat(fmt_args))

FmtNext ==
    \/ DashScopeChatFormatCall
    \/ ZhipuAIChatFormatCall
    \/ DashScopeMultiModalFormatCall

-----------------------------------------------------------------------------
(* The specifications *)

InitSQL == SQLInit /\ CAIdle /\ MWIdle /\ FmtIdle

SpecSQL == InitSQL /\ [][SQLNext]_vars

InitCodeAct == CAInit /\ SQLInit /\ MWIdle /\ FmtIdle

SpecCodeAct == InitCodeAct /\ [][CANext]_vars

\* the steps inside one reply: the model answers, the executor returns, the
\* loop is left
CAStep ==
    \/ \E text \in ModelTexts : CAModelCall(text)
    \/ \E status \in ExecStatuses : CAExecute(status)
    \/ CAFinish

\* a reply goes on as long as the model and the executor return
SpecCodeActLive == InitCodeAct /\ [][CANext]_vars /\ WF_vars(CAStep)

InitModel == MWInit /\ SQLInit /\ CAIdle /\ FmtIdle

SpecModel == InitModel /\ [][MWNext]_vars

InitFormat == FmtInit /\ SQLInit /\ CAIdle /\ MWIdle

SpecFormat == InitFormat /\ [][FmtNext]_vars

-----------------------------------------------------------------------------
(* SQLAgent: the claims *)

\* attempts of this reply call that ended in the handler
FailedAttempts ==
    Cardinality({i \in 1..Len(sql_trace) :
        sql_trace[i] \in {"generate_raised", "execute_raised", "answer_raised"}})

\* this reply call entered the retry loop and no attempt of it succeeded
EveryAttemptFailed ==
    /\ sql_pc \in {"returned", "raised"}
    /\ is_sql_response # <<>>
    /\ ~IsNotSqlQuestion(is_sql_response)
    /\ \A i \in 1..Len(sql_trace) : sql_trace[i] # "answer"

(***************************************************************************)
(* C1: when the question is in-domain and every attempt of the retry loop  *)
(* fails, the loop makes exactly max_retries attempts, the agent emits the *)
(* failure notice, and reply returns without raising.                      *)
(***************************************************************************)
C1_RetryBoundThenFallbackNoRaise ==
    EveryAttemptFailed =>
        /\ FailedAttempts = max_retries
        /\ sql_printed[Len(sql_printed)] = "Sorry, the agent failed to execute query"
        /\ sql_pc = "returned"
        /\ sql_error = "none"

-----------------------------------------------------------------------------
(* CodeActAgent: the claims *)

Count(seq, e) == Cardinality({i \in 1..Len(seq) : seq[i] = e})

\* what this reply call appended to the memory
Appended == SubSeqOrEmpty(memory, Len(ca_entry) + 1, Len(memory))

\* the model was called in this reply, and each of its answers led to an execution
EveryResponseHadCode ==
    /\ ca_trace # <<>>
    /\ Count(ca_trace, "model") = Count(ca_trace, "execute")

(***************************************************************************)
(* C2: a reply in which the model is called and every model response       *)
(* contains an [execute] block ends after exactly n_max_executions         *)
(* executions and as many model calls, the last step before the end being  *)
(* an execution (no model call follows it), with the "maximum number of    *)
(* executions" message appended once, as the last entry of the memory.     *)
(***************************************************************************)
C2_ExecutionCeiling ==
    (ca_pc = "done" /\ EveryResponseHadCode) =>
        /\ Count(ca_trace, "execute") = n_max_executions
        /\ Count(ca_trace, "model") = n_max_executions
        /\ excution_count = n_max_executions
        /\ ca_trace[Len(ca_trace)] = "execute"
        /\ Count(Appended, code_max_exec_msg) = 1
        /\ memory[Len(memory)] = code_max_exec_msg

C2_Witness ==
    /\ ca_pc = "done"
    /\ EveryResponseHadCode
    /\ Count(ca_trace, "execute") = n_max_executions
    /\ Count(Appended, code_max_exec_msg) = 1

-----------------------------------------------------------------------------
(* Claims about the model wrappers *)

\* the last call made was a DashScopeChatWrapper call in streaming mode
StreamedCall ==
    /\ wrapper.model_type = "dashscope_chat"
    /\ mw_pc \in {"streaming", "drained", "stream_raised", "abandoned"}

\* the last call made was a DashScopeChatWrapper call answered by one
\* blocking response
BlockingChatCall ==
    /\ wrapper.model_type = "dashscope_chat"
    /\ mw_pc \in {"returned", "raised"}
    /\ mw_response # None

AllDeliveredOk == \A i \in 1..Len(delivered) : delivered[i].status_code = "200"

NoBookkeeping ==
    /\ monitor = before.monitor
    /\ n_saved = before.n_saved
    /\ record = None

TokensOf(usage, k) == IF k \in Keys(usage) THEN Get(usage, k, 0) ELSE 0

\* the monitor moved by exactly one call with the token counts of usage
UpdatedOnceWith(usage) ==
    /\ monitor["call_counter"] = before.monitor["call_counter"] + 1
    /\ monitor["prompt_tokens"] =
           before.monitor["prompt_tokens"] + TokensOf(usage, "input_tokens")
    /\ monitor["completion_tokens"] =
           before.monitor["completion_tokens"] + TokensOf(usage, "output_tokens")
    /\ monitor["total_tokens"] =
           before.monitor["total_tokens"] + TokensOf(usage, "input_tokens")
                                          + TokensOf(usage, "output_tokens")

RECURSIVE ConcatContents(_, _)
\* the contents of chunks 1..k, joined
ConcatContents(chunks, k) ==
    IF k = 0 THEN <<>> ELSE ConcatContents(chunks, k - 1) \o chunks[k].content

IsPrefix(a, b) == Len(a) <= Len(b) /\ SubSeq(b, 1, Len(a)) = a

\* C3: in a streamed call whose chunks all have success status, nothing is
\* booked at call time, while chunks are still being yielded, or when the
\* consumer drops the stream early; once the consumer has pulled past the last
\* of a non-empty sequence of chunks the usage update has happened exactly once
\* (call_counter +1, the token counts of the last chunk, one record)
C3_UsageUpdateOnceAtEndOfStream ==
    (StreamedCall /\ AllDeliveredOk) =>
        /\ gen_pos \in {"created", "suspended", "closed"} => NoBookkeeping
        /\ gen_pos = "done" =>
               /\ Len(delivered) >= 1
               /\ UpdatedOnceWith(delivered[Len(delivered)].usage)
               /\ n_saved = before.n_saved + 1

C3_Witness ==
    /\ StreamedCall /\ AllDeliveredOk
    /\ gen_pos = "done"
    /\ Len(delivered) = 2
    /\ monitor["call_counter"] = before.monitor["call_counter"] + 1
    /\ monitor["total_tokens"] > before.monitor["total_tokens"]

\* C4: the k-th value a streamed call yields is the concatenation of the
\* contents of provider chunks 1..k, each yielded value is a prefix of the
\* next, and as many values are yielded as successful chunks were delivered
C4_SnapshotsAreCumulative ==
    StreamedCall =>
        /\ Len(yielded) = Cardinality({i \in 1..Len(delivered) : delivered[i].status_code = "200"})
        /\ \A k \in 1..Len(yielded) : yielded[k] = ConcatContents(delivered, k)
        /\ \A k \in 1..(Len(yielded) - 1) : IsPrefix(yielded[k], yielded[k + 1])

C4_Witness ==
    /\ StreamedCall
    /\ Len(yielded) = 2
    /\ yielded[1] # <<>>
    /\ yielded[2] # yielded[1]
    /\ yielded[2] = delivered[1].content \o delivered[2].content

\* C5: after a streamed response is fully consumed the last provider chunk
\* carries the assembled text in place of its own content, that text is the
\* last value yielded, and this patched chunk is the response that was booked
C5_LastChunkPatchedWithFullText ==
    (StreamedCall /\ gen_pos = "done") =>
        /\ last_chunk # None
        /\ last_chunk[1] = [delivered[Len(delivered)] EXCEPT
                                !.content = ConcatContents(delivered, Len(delivered))]
        /\ last_chunk[1].content = yielded[Len(yielded)]
        /\ record # None
        /\ record[1].response = last_chunk[1]

C5_Witness ==
    /\ StreamedCall /\ gen_pos = "done"
    /\ Len(delivered) = 2
    /\ last_chunk[1].content # delivered[2].content
    /\ record[1].response.content = yielded[2]

\* C6: when the k-th chunk of a stream has a non-success status the consumer
\* has received exactly k-1 values and then a RuntimeError, no chunk after the
\* k-th is read, and nothing is booked
C6_FailedChunkAbortsStream ==
    StreamedCall =>
        \A k \in 1..Len(delivered) :
            delivered[k].status_code # "200" =>
                /\ k = Len(delivered)
                /\ Len(yielded) = k - 1
                /\ mw_pc = "stream_raised"
                /\ gen_pos = "raised"
                /\ mw_error # None
                /\ mw_error[1].type = "RuntimeError"
                /\ NoBookkeeping

C6_Witness ==
    /\ StreamedCall
    /\ Len(delivered) = 2
    /\ delivered[2].status_code # "200"
    /\ Len(yielded) = 1
    /\ mw_error # None

Mentions(message, token) == \E i \in 1..Len(message) : message[i] = token

\* C7: a blocking DashScopeChatWrapper call answered with a non-success status
\* raises a RuntimeError whose message holds the response's request id, status
\* code, error code and error message; one request was issued, the metrics are
\* as before and no record is saved
C7_BlockingFailureRaises ==
    (BlockingChatCall /\ mw_response[1].status_code # "200") =>
        /\ mw_pc = "raised"
        /\ mw_error # None
        /\ mw_error[1].type = "RuntimeError"
        /\ Mentions(mw_error[1].message, mw_response[1].request_id)
        /\ Mentions(mw_error[1].message, mw_response[1].status_code)
        /\ Mentions(mw_error[1].message, mw_response[1].code)
        /\ Mentions(mw_error[1].message, mw_response[1].message)
        /\ n_requests = before.n_requests + 1
        /\ returned = None
        /\ NoBookkeeping

C7_Witness ==
    /\ BlockingChatCall
    /\ mw_response[1].status_code = "429"
    /\ mw_pc = "raised"
    /\ before.monitor["call_counter"] = 1

\* C8: a successful blocking DashScopeChatWrapper call adds 1 to call_counter,
\* the response's input and output token counts (0 when absent) to
\* prompt_tokens and completion_tokens and their sum to total_tokens, and
\* returns a ModelResponse whose text is the response's message content and
\* whose raw field is the response
C8_BlockingSuccessBooksUsage ==
    (BlockingChatCall /\ mw_response[1].status_code = "200") =>
        /\ mw_pc = "returned"
        /\ UpdatedOnceWith(mw_response[1].usage)
        /\ returned # None
        /\ returned[1].text = Some(mw_response[1].content)
        /\ returned[1].raw = mw_response

C8_Witness ==
    /\ BlockingChatCall
    /\ mw_pc = "returned"
    /\ Keys(mw_response[1].usage) = {"input_tokens", "output_tokens"}
    /\ before.monitor["total_tokens"] > 0
    /\ monitor["total_tokens"] > monitor["prompt_tokens"]

\* the messages argument of the last call is not a list or has an element
\* without a "role" or without a "content" key
MessagesRejectable ==
    \/ call_args[1].messages = "not_a_list"
    \/ \E i \in 1..Len(Elems(call_args[1].messages)) :
           {"role", "content"} \ Elems(call_args[1].messages)[i] # {}

ValidatingChatCall ==
    /\ wrapper.model_type \in {"dashscope_chat", "zhipuai_chat"}
    /\ call_args # None

\* C9: a DashScopeChatWrapper or ZhipuAIChatWrapper call whose messages are
\* not a list, or hold an element lacking "role" or "content", raises a
\* ValueError with no provider request issued, the metrics as before and no
\* record saved
C9_InvalidMessagesRejectedBeforeRequest ==
    (ValidatingChatCall /\ MessagesRejectable) =>
        /\ mw_pc = "raised"
        /\ mw_error # None
        /\ mw_error[1].type = "ValueError"
        /\ request = None
        /\ n_requests = before.n_requests
        /\ NoBookkeeping

C9_Witness ==
    /\ wrapper.model_type = "zhipuai_chat"
    /\ call_args # None
    /\ call_args[1].messages = "no_content"
    /\ mw_pc = "raised"
    /\ before.n_requests = 1

\* the keywords a wrapper sets by itself on its request
WrapperSetKeys ==
    {"model", "messages", "result_format", "stream", "incremental_output", "input", "prompt"}

\* C10: whenever any wrapper has issued its request, every option of the
\* constructor's defaults overlaid with the call's options is carried by the
\* request, with the call's value where both name the key
C10_RequestCarriesMergedOptions ==
    (call_args # None /\ request # None) =>
        LET overlaid == Merge(wrapper.generate_args, call_args[1].kwargs)
        IN \A k \in Keys(overlaid) \ WrapperSetKeys :
               /\ k \in Keys(request[1].kwargs)
               /\ Get(request[1].kwargs, k, "absent") = Get(overlaid, k, "absent")

-----------------------------------------------------------------------------
(* Claims about the formatters *)

\* one of the two chat formatters returned
ChatFormatted ==
    /\ fmt_pc = "returned"
    /\ fmt_by \in {"dashscope_chat", "zhipuai_chat"}

\* the messages the arguments hold, in order
InputMsgs == ParseArgs(fmt_args).input_msgs

LeadingSystem == InputMsgs # <<>> /\ InputMsgs[1].role = "system"

RECURSIVE HistoryText(_, _)
\* the header, then a "{name}: {content}" line for each of ms[1..k]
HistoryText(ms, k) ==
    IF k = 0 THEN <<"## Dialogue History\n">>
    ELSE HistoryText(ms, k - 1) \o (IF k > 1 THEN <<"\n">> ELSE <<>>)
         \o <<ms[k].name, ": ", ms[k].content>>

RolesOf(out, role) == {i \in 1..Len(out) : out[i].role = role}

\* C11: when the first message has role "system", the chat formatter's first
\* entry has role "system" and that message's content, and the second entry is
\* the one role "user" entry, holding the header "## Dialogue History" and then
\* one "{name}: {content}" line per subsequent message, in the original order
C11_SystemThenCollapsedHistory ==
    (ChatFormatted /\ LeadingSystem) =>
        /\ Len(fmt_out[1]) = 2
        /\ fmt_out[1][1] = [role |-> "system", content |-> <<InputMsgs[1].content>>]
        /\ fmt_out[1][2].role = "user"
        /\ fmt_out[1][2].content = HistoryText(Tail(InputMsgs), Len(InputMsgs) - 1)

C11_Witness ==
    /\ ChatFormatted /\ LeadingSystem
    /\ Len(InputMsgs) = 3
    /\ InputMsgs[2].name = "Bob"
    /\ InputMsgs[3].role = "system"
    /\ Len(fmt_out[1][2].content) = 8

\* C12: the chat formatter's output ends with the only role "user" entry and
\* has length 2 when the first message has role "system" and 1 otherwise; the
\* empty input gives one user entry holding only the header, and a role
\* "system" message after the first never becomes a second system entry
C12_OneUserEntryLast ==
    ChatFormatted =>
        /\ Len(fmt_out[1]) = (IF LeadingSystem THEN 2 ELSE 1)
        /\ RolesOf(fmt_out[1], "user") = {Len(fmt_out[1])}
        /\ RolesOf(fmt_out[1], "system") \subseteq {1}
        /\ InputMsgs = <<>> =>
               fmt_out[1] = <<[role |-> "user", content |-> <<"## Dialogue History\n">>]>>

C12_Witness ==
    /\ ChatFormatted
    /\ ~LeadingSystem
    /\ \E i \in 2..Len(InputMsgs) : InputMsgs[i].role = "system"
    /\ Len(fmt_out[1]) = 1

\* an argument that is neither None, nor a message, nor a sequence of messages
NeitherMsgNorMsgs(arg) ==
    /\ arg.type # "NoneType"
    /\ ~(arg.type = "Msg" /\ arg.v[1].cls = "Msg")
    /\ ~(arg.type \in {"list", "tuple"} /\ \A i \in 1..Len(arg.v) : arg.v[i].cls = "Msg")

WithoutNone(args) == SelectSeq(args, LAMBDA a : a.type # "NoneType")

\* what the formatter that ran gives for args
FormatOf(by, args) ==
    CASE by = "dashscope_chat" -> DashScopeChatFormat(args)
      [] by = "zhipuai_chat" -> ZhipuAIChatFormat(args)
      [] OTHER -> DashScopeMultiModalFormat(args)

\* C13: each of the three formatters raises TypeError when an argument is
\* neither a message nor a sequence of messages only; None arguments are
\* skipped: without such an argument the outcome is the outcome for the
\* arguments with every None left out
C13_BadArgumentTypeError ==
    fmt_pc # "idle" =>
        /\ (\E i \in 1..Len(fmt_args) : NeitherMsgNorMsgs(fmt_args[i])) =>
               /\ fmt_pc = "raised"
               /\ fmt_error # None
               /\ fmt_error[1].type = "TypeError"
               /\ fmt_out = None
        /\ (\A i \in 1..Len(fmt_args) : fmt_args[i].type \in {"NoneType", "Msg"}) =>
               /\ fmt_pc = "returned" \/ fmt_by = "dashscope_multimodal"
               /\ fmt_out = FormatOf(fmt_by, WithoutNone(fmt_args)).messages
               /\ fmt_error = FormatOf(fmt_by, WithoutNone(fmt_args)).error
               /\ fmt_pc = "returned" =>
                      Len(fmt_out[1]) <= 1 + Len(WithoutNone(fmt_args))

C13_Witness ==
    /\ fmt_pc = "raised"
    /\ fmt_by = "dashscope_multimodal"
    /\ Len(fmt_args) = 2
    /\ fmt_args[1].type = "NoneType"
    /\ fmt_args[2].type = "list"
    /\ \E i \in 1..Len(fmt_args[2].v) : fmt_args[2].v[i].cls # "Msg"

-----------------------------------------------------------------------------
(* SQLAgent: the statement and the classification *)

NonWhitespace(s) == SelectSeq(s, LAMBDA c : c \notin {" ", "\n"})

SelectIdFromSinger == <<"SELECT", " ", "id", " ", "FROM", " ", "singer", "\n">>

\* C14: get_response_from_prompt gives a statement that begins with "SELECT"
\* and ends with a newline; "id FROM singer", " id FROM singer" and
\* "SELECT id FROM singer" all give "SELECT id FROM singer\n"; the statement
\* holds the words of the model text up to the first "/*", with whitespace
\* normalised, not prefixed when they begin with "SELECT" and with "SELECT "
\* prepended otherwise
C14_StatementBeginsWithSelectOnce ==
    sql_response # <<>> =>
        LET text == sql_response[1].text
            sql == sql_response[1].sql
            body == SubSeq(sql, 1, Len(sql) - 1)
            words == NonWhitespace(BeforeFirst(text, "/*"))
        IN /\ sql[1] = "SELECT"
           /\ sql[Len(sql)] = "\n"
           /\ text \in {<<"id", " ", "FROM", " ", "singer">>,
                        <<" ", "id", " ", "FROM", " ", "singer">>,
                        <<"SELECT", " ", "id", " ", "FROM", " ", "singer">>}
                  => sql = SelectIdFromSinger
           /\ \A i \in 1..Len(body) : body[i] \notin {"\n", "/*"}
           /\ \A i \in 1..(Len(body) - 1) : ~(body[i] = " " /\ body[i + 1] = " ")
           /\ NonWhitespace(body) =
                  IF words # <<>> /\ words[1] = "SELECT" THEN words ELSE <<"SELECT">> \o words
           /\ (words = <<>> \/ words[1] # "SELECT") => SubSeq(sql, 1, 2) = <<"SELECT", " ">>

C14_Witness ==
    /\ sql_response # <<>>
    /\ sql_response[1].text =
           <<"\n", "SELECT", " ", " ", "id", "\n", "FROM", " ", "singer", "\n">>
    /\ sql_response[1].sql = SelectIdFromSinger
    /\ sql_pc = "execute"

\* this reply call asked the classification question and got an answer
Classified == sql_trace # <<>> /\ sql_trace[1] = "classify"

Affirmative(response) == [i \in 1..Len(response) |-> LowerChar(response[i])] = <<"y", "e", "s">>

GenerationOrExecution ==
    {"generate", "generate_raised", "execute", "execute_raised", "answer", "answer_raised"}

\* C15: when the classification answer is not "yes" (compared without regard
\* to case and without trimming) reply returns that answer verbatim and the
\* turn has no SQL generation and no SQL execution; generation and execution
\* only happen in a turn whose classification answer was affirmative
C15_NonAffirmativePassedThrough ==
    /\ (Classified /\ ~Affirmative(is_sql_response)) =>
           /\ sql_pc = "returned"
           /\ msg = is_sql_response
           /\ sql_spoken = <<is_sql_response>>
           /\ sql_trace = <<"classify">>
    /\ (\E i \in 1..Len(sql_trace) : sql_trace[i] \in GenerationOrExecution) =>
           /\ Classified
           /\ Affirmative(is_sql_response)

C15_Witness ==
    /\ Classified
    /\ is_sql_response = <<" ", "y", "e", "s">>
    /\ sql_pc = "returned"
    /\ msg = <<" ", "y", "e", "s">>
    /\ sql_turns = 2

-----------------------------------------------------------------------------
(* Claims about what the wrappers return and book *)

\* the result fields of a ModelResponse that are not None
Populated(res) ==
    {f \in {"text", "stream", "embedding", "image_urls"} : res[f] # <<>>}

\* the last call was a chat call in streaming mode
CalledStreaming ==
    /\ wrapper.model_type = "dashscope_chat"
    /\ IF call_args[1].stream = "None" THEN wrapper.stream ELSE call_args[1].stream = "True"

\* the one result field of the call's mode
ModeField ==
    CASE wrapper.model_type \in {"dashscope_text_embedding", "zhipuai_embedding"} -> "embedding"
      [] wrapper.model_type = "dashscope_image_synthesis" -> "image_urls"
      [] wrapper.model_type = "dashscope_chat" -> (IF CalledStreaming THEN "stream" ELSE "text")
      [] OTHER -> "text"

\* C16: the ModelResponse a wrapper call returned has exactly one result field
\* populated, the one of the call's mode: text for blocking chat and
\* multimodal calls, stream for streamed chat calls, embedding for embedding
\* calls, image_urls for image synthesis calls
C16_OnePopulatedResultField ==
    returned # <<>> => Populated(returned[1]) = {ModeField}

C16_Witness ==
    /\ returned # <<>>
    /\ wrapper.model_type = "dashscope_image_synthesis"
    /\ returned[1].image_urls # <<>>
    /\ Len(returned[1].image_urls[1]) = 2
    /\ returned[1].text = <<>>

-----------------------------------------------------------------------------
(* CodeActAgent: the memory *)

\* a reply call was made on the agent
InReply == ca_pc # "idle"

\* what the current reply call appended after the incoming message
AfterIncoming == SubSeq(memory, Len(ca_entry) + 2, Len(memory))

\* the ceiling notice was appended by the current reply call
NoticeAppended == ca_pc = "done" /\ excution_count = n_max_executions

\* the k-th step of the reply and the entry it appended: a model reply with
\* role "assistant", or the execution result of the reply just before it
StepEntryFits(k) ==
    IF ca_trace[k] = "model"
    THEN /\ AfterIncoming[k].role = "assistant"
         /\ k < Len(ca_trace) =>
                (ca_trace[k + 1] = "execute") =
                    (\E i, j \in 1..Len(AfterIncoming[k].content) :
                         /\ i < j
                         /\ AfterIncoming[k].content[i] = "[execute]"
                         /\ AfterIncoming[k].content[j] = "[/execute]")
    ELSE /\ k > 1
         /\ ca_trace[k - 1] = "model"
         /\ AfterIncoming[k].name = "user"
         /\ AfterIncoming[k].role = "user"
         /\ AfterIncoming[k].content[Len(AfterIncoming[k].content)] = "output"

\* the memory is the memory at entry, the incoming message, then one entry
\* per step of the reply, then n more entries
AppendedInOrderThen(n) ==
    InReply =>
        /\ Len(memory) = Len(ca_entry) + 1 + Len(ca_trace) + n
        /\ SubSeq(memory, 1, Len(ca_entry)) = ca_entry
        /\ memory[Len(ca_entry) + 1].role \in {"user", "assistant"}
        /\ \A k \in 1..Len(ca_trace) : StepEntryFits(k)

\* C17 as stated: the entries a reply appends are the incoming message and
\* then each model reply, immediately followed by its execution-result
\* message when an execution occurred, and nothing else
C17_AppendedRepliesAndResultsOnly == AppendedInOrderThen(0)

\* C17: every step leaves the memory before it a prefix of the memory after
\* it, and the entries a reply appends are the incoming message, then each
\* model reply immediately followed by its execution-result message when an
\* execution occurred, then the ceiling notice when the reply ends at the
\* execution ceiling
C17_MemoryAppendOnly ==
    /\ [][IsPrefix(memory, memory')]_vars
    /\ [](AppendedInOrderThen(IF NoticeAppended THEN 1 ELSE 0)
          /\ (NoticeAppended => memory[Len(memory)].role = "assistant"))

C17_Witness ==
    /\ ca_pc = "done"
    /\ Len(ca_entry) >= 3
    /\ ca_entry[Len(ca_entry)].role = "assistant"
    /\ ca_trace = <<"model", "execute", "model">>
    /\ Len(memory) = Len(ca_entry) + 4

\* the last call, or its stream, failed on a response of non-success status
FailedOnStatus ==
    /\ mw_pc \in {"raised", "stream_raised"}
    /\ mw_response # <<>>
    /\ mw_response[1].status_code # "200"

-----------------------------------------------------------------------------
(* Claims about the multimodal formatter *)

MultiModalFormatted ==
    /\ fmt_pc = "returned"
    /\ fmt_by = "dashscope_multimodal"

\* the messages that are not taken for the system prompt
HistoryMsgs == IF LeadingSystem THEN Tail(InputMsgs) ELSE InputMsgs

MediaType(path) ==
    CASE path \in {"figure1.png", "http://host/figure2.jpg"} -> "image"
      [] path = "voice.mp3" -> "audio"
      [] OTHER -> "other"

RECURSIVE SupportedPaths(_)
\* the image and audio urls of a url field, in url order
SupportedPaths(url) ==
    IF url.type = "str"
    THEN (IF MediaType(url.v[1]) \in {"image", "audio"} THEN url.v ELSE <<>>)
    ELSE IF url.type = "list" /\ url.v # <<>>
    THEN SupportedPaths(Head(url.v)) \o SupportedPaths([type |-> "list", v |-> Tail(url.v)])
    ELSE <<>>

RECURSIVE PathsOf(_)
\* the image and audio urls of msgs, in message order
PathsOf(msgs) ==
    IF msgs = <<>> THEN <<>> ELSE SupportedPaths(Head(msgs).url) \o PathsOf(Tail(msgs))

\* blocks[k] is the block of paths[k], for every k
BlocksOfPaths(blocks, paths) ==
    /\ Len(blocks) = Len(paths)
    /\ \A k \in 1..Len(paths) :
           /\ blocks[k].key = MediaType(paths[k])
           /\ blocks[k].value[Len(blocks[k].value)] = paths[k]

\* C19: the content of the multimodal formatter's final role "user" entry is
\* one block per image or audio url of the messages it does not take for the
\* system prompt, in message order and in url order within a message, and then
\* exactly one text block, the last, holding the collapsed dialogue history;
\* a url of another media type raises nothing and gives no block
C19_MediaBlocksThenHistory ==
    MultiModalFormatted =>
        LET user == fmt_out[1][Len(fmt_out[1])]
            n == Len(user.content)
        IN /\ user.role = "user"
           /\ n = Len(PathsOf(HistoryMsgs)) + 1
           /\ BlocksOfPaths(SubSeq(user.content, 1, n - 1), PathsOf(HistoryMsgs))
           /\ user.content[n] = [key |-> "text",
                                 value |-> HistoryText(HistoryMsgs, Len(HistoryMsgs))]

C19_Witness ==
    /\ MultiModalFormatted
    /\ Len(HistoryMsgs) = 2
    /\ HistoryMsgs[1].url.type = "list"
    /\ \E i \in 1..Len(HistoryMsgs[1].url.v) : HistoryMsgs[1].url.v[i].v = <<"notes.txt">>
    /\ HistoryMsgs[2].role = "system"
    /\ Len(fmt_out[1][Len(fmt_out[1])].content) = 4
    /\ fmt_out[1][Len(fmt_out[1])].content[2].key = "audio"
    /\ fmt_out[1][Len(fmt_out[1])].content[3].key = "image"

\* C20: a leading system message becomes a role "system" entry whose content
\* is the text block first and then that message's own image and audio
\* blocks, and none of these blocks is in the user entry
C20_SystemEntryTextFirst ==
    (MultiModalFormatted /\ LeadingSystem) =>
        LET system == fmt_out[1][1]
            user == fmt_out[1][Len(fmt_out[1])]
            paths == SupportedPaths(InputMsgs[1].url)
        IN /\ Len(fmt_out[1]) = 2
           /\ system.role = "system"
           /\ Len(system.content) = 1 + Len(paths)
           /\ system.content[1] = [key |-> "text", value |-> <<InputMsgs[1].content>>]
           /\ BlocksOfPaths(Tail(system.content), paths)
           /\ Len(user.content) = Len(PathsOf(Tail(InputMsgs))) + 1

\* the last call was made on one of the two embedding wrappers and the
\* provider answered its request with a success status
EmbeddingAnswered ==
    /\ wrapper.model_type \in {"dashscope_text_embedding", "zhipuai_embedding"}
    /\ mw_pc \in {"returned", "raised"}
    /\ mw_response # None
    /\ mw_response[1].status_code = HTTP_OK

\* C21: an embedding call returns a ModelResponse whose embedding field holds
\* one vector per entry of the provider's response data, in response order,
\* for a response with several entries, with one entry and with no entry: it
\* never raises
C21_EmbeddingOneVectorPerEntry ==
    EmbeddingAnswered =>
        /\ mw_pc = "returned"
        /\ mw_error = None
        /\ returned # None
        /\ returned[1].embedding = Some(mw_response[1].content)

-----------------------------------------------------------------------------
(* SQLAgent: the retry loop *)

\* an attempt of this reply call completed without an exception
AttemptSucceeded == \E i \in 1..Len(sql_trace) : sql_trace[i] = "answer"

\* the attempts this reply call started: each begins with the generation call
AttemptsMade == Count(sql_trace, "generate") + Count(sql_trace, "generate_raised")

\* C22: the first attempt that completes without an exception ends the loop:
\* no generation call, execution or answer call follows it, it does not
\* increment the attempt counter, and the number of attempts made is the index
\* of that attempt, at most max_retries
C22_SuccessEndsLoop ==
    AttemptSucceeded =>
        /\ sql_trace[Len(sql_trace)] = "answer"
        /\ Count(sql_trace, "answer") = 1
        /\ sql_pc \in {"after", "returned"}
        /\ attempt = FailedAttempts
        /\ AttemptsMade = attempt + 1
        /\ AttemptsMade <= max_retries

\* the third attempt succeeded and reply returned
C22_Witness ==
    /\ AttemptSucceeded
    /\ sql_pc = "returned"
    /\ attempt = max_retries - 1
    /\ AttemptsMade = max_retries


\* the events of a model call that raised inside the loop, and outside it
RaisedInLoop == {"generate_raised", "answer_raised"}
RaisedOutsideLoop == {"classify_raised", "describe_raised"}

\* the event that starts an attempt
StartsAttempt == {"generate", "generate_raised"}

\* C23: a provider error raised by a model call inside the retry loop (the
\* generation call, the answer call) is caught, counted as one failed attempt
\* and retried like any other failure; raised by a model call outside the loop
\* (classification, the description when the input is None) it leaves reply
\* uncaught and no attempt is made
C23_ProviderErrorCaughtOnlyInLoop ==
    /\ \A i \in 1..Len(sql_trace) :
        sql_trace[i] \in RaisedInLoop =>
            /\ sql_error # "RuntimeError"
            /\ attempt = FailedAttempts
            /\ Cardinality({j \in 1..i : sql_trace[j] \in StartsAttempt}) =
                   Cardinality({j \in 1..i : sql_trace[j] \in
                       {"generate_raised", "execute_raised", "answer_raised"}})
            /\ IF i < Len(sql_trace)
               THEN sql_trace[i + 1] \in StartsAttempt
               ELSE IF attempt < max_retries THEN sql_pc = "generate"
               ELSE sql_pc \in {"after", "returned", "raised"}
    /\ (sql_trace # <<>> /\ sql_trace[1] \in RaisedOutsideLoop) =>
            /\ sql_pc = "raised"
            /\ sql_error = "RuntimeError"
            /\ Len(sql_trace) = 1
            /\ attempt = 0
            /\ AttemptsMade = 0
            /\ sql_spoken = <<>>

\* the generation call raised, then the answer call raised, and the third
\* attempt went through
C23_Witness ==
    /\ sql_pc = "returned"
    /\ sql_trace = <<"classify", "generate_raised", "generate", "execute", "answer_raised",
                     "generate", "execute", "answer">>
    /\ attempt = 2

-----------------------------------------------------------------------------
(* CodeActAgent: the executed code and the end of a reply *)

\* the positions of the first opening tag that a closing tag follows and of the
\* first closing tag after it; <<0, 0>> when the text holds no complete block
FirstBlock(text) ==
    LET opens == {i \in 1..Len(text) : /\ text[i] = OpenTag
                                        /\ \E j \in (i+1)..Len(text) : text[j] = CloseTag}
    IN IF opens = {} THEN <<0, 0>>
       ELSE LET i == CHOOSE a \in opens : \A b \in opens : a <= b
                closes == {j \in (i+1)..Len(text) : text[j] = CloseTag}
                j == CHOOSE a \in closes : \A b \in closes : a <= b
            IN <<i, j>>

FirstBlockContent(text) ==
    Strip(SubSeqOrEmpty(text, FirstBlock(text)[1] + 1, FirstBlock(text)[2] - 1))

\* the text of the model's last response of this reply, which line 129 added
\* to the memory
LastResponseText == memory[Len(memory)].content

\* C24: the executor is handed the content of the first [execute]...[/execute]
\* block of the model response, stripped of surrounding whitespace, the first
\* block only when there are several; when the response holds no complete
\* block the executor is not invoked
C24_FirstBlockHandedToExecutor ==
    /\ ca_pc = "execute" =>
        /\ FirstBlock(LastResponseText) # <<0, 0>>
        /\ ca_code = <<FirstBlockContent(LastResponseText)>>
    /\ (ca_pc # "execute" /\ ca_trace # <<>> /\ ca_trace[Len(ca_trace)] = "model") =>
        /\ FirstBlock(LastResponseText) = <<0, 0>>
        /\ ca_code = <<>>


\* the k-th event of this reply is a model call whose response held no block:
\* no execution came of it
ResponseWithoutBlock(k) ==
    /\ ca_trace[k] = "model"
    /\ IF k < Len(ca_trace) THEN ca_trace[k + 1] # "execute" ELSE ca_pc # "execute"

\* C25: the first model response without an execute block ends the turn: no
\* model call and no execution follows it, the last entry of the memory is
\* that assistant message, and the notice of the execution ceiling is not
\* appended, fewer than n_max_executions executions having been made
C25_ResponseWithoutBlockEndsTurn ==
    \A k \in 1..Len(ca_trace) :
        ResponseWithoutBlock(k) =>
            /\ k = Len(ca_trace)
            /\ ca_pc \in {"loop", "done"}
            /\ ~CALoopContinues(memory, excution_count)
            /\ memory[Len(memory)].role = "assistant"
            /\ memory[Len(memory)].content \in ModelTexts
            /\ ~HasCode(memory[Len(memory)].content)
            /\ excution_count = Count(ca_trace, "execute")
            /\ excution_count < n_max_executions
            /\ Count(Appended, code_max_exec_msg) = 0

\* a reply that ended on the answer that followed one execution
C25_Witness ==
    /\ ca_pc = "done"
    /\ ca_trace = <<"model", "execute", "model">>
    /\ memory[Len(memory)].content = TextAnswer


\* the message the current reply call was made with, as line 115 added it
Incoming == memory[Len(ca_entry) + 1]

\* a step of this reply added the event e to its trace
Performs(e) == ca_trace' = Append(ca_trace, e)

\* the reply call is over: it returned, or an exception left it
ReplyOver == ca_pc \in {"done", "raised", "assertion_failed"}

\* C26: a reply terminates whenever the model and the executor return: each
\* iteration performs an execution, which increments the count, or leaves an
\* assistant message last in the memory; one reply issues at most
\* n_max_executions model calls and as many executions, and none when the
\* last entry of the memory after the incoming message was added does not
\* have role "user"
C26_ReplyTerminatesWithinCeiling ==
    /\ [][/\ Performs("model") =>
                (ca_pc' = "execute" \/ memory'[Len(memory')].role = "assistant")
          /\ Performs("execute") => excution_count' = excution_count + 1]_vars
    /\ [](InReply =>
            /\ Count(ca_trace, "model") <= n_max_executions
            /\ Count(ca_trace, "execute") <= n_max_executions
            /\ Count(ca_trace, "execute") = excution_count
            /\ Incoming.role # "user" => ca_trace = <<>>)
    /\ (InReply ~> ReplyOver)

\* a reply that made n_max_executions model calls and executions and ended
C26_Witness ==
    /\ ca_pc = "done"
    /\ Count(ca_trace, "model") = n_max_executions
    /\ Count(ca_trace, "execute") = n_max_executions
    /\ Incoming.role = "user"


\* m is a message handle_code_result made of an execution inside reply
IsExecutionResult(m) ==
    \E status \in ExecStatuses : m = handle_code_result(status, <<>>)

\* the loop was left with the execution count at the ceiling: line 139 holds
AtCeilingAfterLoop ==
    /\ ca_pc = "loop"
    /\ ~CALoopContinues(memory, excution_count)
    /\ excution_count = n_max_executions

\* C27: the assertion of line 140 never fails: whenever the execution count
\* equals n_max_executions after the loop, the last entry of the memory is an
\* execution-result message with role "user"
C27_AssertionNeverFails ==
    /\ ca_pc # "assertion_failed"
    /\ AtCeilingAfterLoop =>
        /\ LastIsUser(memory)
        /\ IsExecutionResult(memory[Len(memory)])
    /\ (ca_pc = "done" /\ excution_count = n_max_executions) =>
        /\ memory[Len(memory)] = code_max_exec_msg
        /\ IsExecutionResult(memory[Len(memory) - 1])

\* the fifth execution failed and the loop was left
C27_Witness ==
    /\ AtCeilingAfterLoop
    /\ memory[Len(memory)] = handle_code_result("ERROR", <<>>)
    /\ ca_trace[Len(ca_trace)] = "execute"

-----------------------------------------------------------------------------
(* DashScopeChatWrapper: the empty stream and the keys the wrapper sets *)

\* the consumer pulled to the end of a stream in which the provider delivered
\* no chunk
EmptyStreamDrained ==
    /\ StreamedCall
    /\ delivered = <<>>
    /\ gen_pos \in {"done", "raised"}

\* C28: draining a stream of zero chunks ends normally: nothing is yielded, no
\* error is raised when the stream is exhausted, and the metrics and the
\* records agree (one usage update with one record, or neither)
C28_EmptyStreamEndsNormally ==
    EmptyStreamDrained =>
        /\ yielded = <<>>
        /\ gen_pos = "done"
        /\ mw_error = None
        /\ \/ NoBookkeeping
           \/ /\ monitor["call_counter"] = before.monitor["call_counter"] + 1
              /\ n_saved = before.n_saved + 1


\* the last call was made on the chat wrapper and issued its request
ChatRequestIssued ==
    /\ wrapper.model_type = "dashscope_chat"
    /\ call_args # None
    /\ request # None

\* the value the request carries for key k
Requested(k) == Get(request[1].kwargs, k, "absent")

\* the stream flag the call asked for: the call's own when it gave one
AskedToStream ==
    CASE call_args[1].stream = "True" -> TRUE
      [] call_args[1].stream = "False" -> FALSE
      [] OTHER -> wrapper.stream

\* C29: the keys the chat wrapper sets override the defaults and the call's
\* options: the request's model is the wrapper's model_name, result_format is
\* "message", stream is the call's flag when given and the constructor's when
\* it is None, and incremental_output is true whenever stream is true,
\* whatever generate_args and the call's options hold for these keys
C29_WrapperKeysOverrideOptions ==
    ChatRequestIssued =>
        /\ Requested("model") = wrapper.model_name
        /\ Requested("messages") = call_args[1].messages
        /\ Requested("result_format") = "message"
        /\ Requested("stream") = PyBool(AskedToStream)
        /\ AskedToStream => Requested("incremental_output") = "True"

\* a streamed call by the constructor's flag, with the four keys named both in
\* generate_args and in the call's options
C29_Witness ==
    /\ ChatRequestIssued
    /\ call_args[1].stream = "None"
    /\ wrapper.stream
    /\ {"model", "result_format", "stream", "incremental_output"} \subseteq
           Keys(wrapper.generate_args)
    /\ {"model", "result_format", "incremental_output"} \subseteq Keys(call_args[1].kwargs)
    /\ Requested("incremental_output") = "True"

-----------------------------------------------------------------------------
(* SQLAgent: how often the statement is executed *)

\* the events in which SQL is generated or executed
GeneratesOrExecutes == {"generate", "generate_raised", "execute", "execute_raised"}

\* C30 as stated: within one reply call a statement is executed successfully
\* at most once: after a successful execution no later attempt generates or
\* executes SQL, also when the answer call that follows it fails
C30_ExecutedAtMostOnce ==
    \A i, j \in 1..Len(sql_trace) :
        (sql_trace[i] = "execute" /\ i < j) => sql_trace[j] \notin GeneratesOrExecutes

\* C30: within one reply call a statement is executed successfully at most
\* once in each attempt and at most max_retries times in all; a successful
\* execution is followed by the answer call; once an attempt has completed no
\* later attempt generates or executes SQL; SQL is generated and executed again
\* after a successful execution only when the answer call that followed it
\* failed
C30_ExecutedOncePerAttempt ==
    /\ Count(sql_trace, "execute") <= AttemptsMade
    /\ Count(sql_trace, "execute") <= max_retries
    /\ \A i \in 1..Len(sql_trace) :
        /\ (sql_trace[i] = "execute" /\ i < Len(sql_trace)) =>
               sql_trace[i + 1] \in {"answer", "answer_raised"}
        /\ (sql_trace[i] = "execute" /\ i = Len(sql_trace)) => sql_pc = "answer"
        /\ sql_trace[i] = "answer" => i = Len(sql_trace)
    /\ \A i, j \in 1..Len(sql_trace) :
        (sql_trace[i] = "execute" /\ i < j /\ sql_trace[j] \in GeneratesOrExecutes) =>
            sql_trace[i + 1] = "answer_raised"

\* the answer call failed after the first execution, and the second attempt
\* generated and executed SQL again
C30_Witness ==
    /\ sql_pc = "returned"
    /\ sql_trace = <<"classify", "generate", "execute", "answer_raised",
                     "generate", "execute", "answer">>
    /\ attempt = 1

====
